---- MODULE Spec2Model ----
(***************************************************************************)
(* basepak: the Kubernetes reconcilers, the Job launcher, the completion   *)
(* poller and kubectl_cp of src/src/basepak/k8s_utils.py, with the string  *)
(* helpers of src/src/basepak/strings.py they use.                         *)
(*                                                                         *)
(* The cluster is reached only through kubectl subprocesses; every action  *)
(* below is one such call together with the Python code that handles its   *)
(* result.  The cluster itself and the other actors on it are the Env*     *)
(* actions.                                                                *)
(***************************************************************************)
EXTENDS Integers, Sequences, FiniteSets, TLC

VARIABLES
    \* ---- inputs of the reconciler / launcher call under way
    op,          \* the function called: ensure_namespace, ensure_pvc, ...
    mode,        \* the mode parameter (ensure_namespace, create_oneliner_job)
    spec,        \* the spec mapping: MODE, NAMESPACE, JOB_NAME, desired states
    quiet,       \* TRUE: no other actor touches the cluster during the episode
    \* ---- the Python call stack and the result of the call
    stack,       \* sequence of frames, the last is executing
    outcome,     \* "idle" | "running" | "returned" | "raised"
    retval,      \* value returned by the last frame that returned
    exc,         \* exception type that ended the call
    callIdx,     \* 1 for the first call, 2 for the repeated call
    first,       \* outcome and result of the first call, once repeated
    \* ---- the cluster
    ns,          \* namespace: "Absent" | "Active" | "Terminating"
    nsReadErr,   \* how `get namespace` fails for this caller: "none" | "Forbidden" | "Other"
    pvc,         \* PVC phase, or "Absent"
    ds,          \* DaemonSet: whether it exists, and its status counts
    jobs,        \* names of the Jobs in the namespace
    envBudget,   \* external changes still allowed
    calls,       \* kubectl commands issued by the current call, with their results
    \* ---- the local disk
    manifest,    \* the rendered Job manifest file: "none" | "written" | "redacted"
    \* ---- await_k8s_job_completion
    aw,
    \* ---- kubectl_cp
    cp,
    \* ---- strings.truncate_middle applied to one argument list
    tm,
    \* ---- locks.group_lock: the lock file and the callers on one node
    lk,
    \* ---- ensure_namespace beside an actor that never tires
    nr,
    \* ---- fetch_from_image
    fi,
    \* ---- scale_resources_to_zero
    sz,
    \* ---- Task.monitor and the Tracker
    tk

recVars == <<op, mode, spec, quiet, stack, outcome, retval, exc, callIdx, first,
             ns, nsReadErr, pvc, ds, jobs, envBudget, calls, manifest>>
restVars == <<nr, fi, sz, tk>>
vars == <<recVars, aw, cp, tm, lk, restVars>>

-----------------------------------------------------------------------------
(* Bounds of the model *)

\* external changes to the cluster during one call
MaxEnvChanges == 3
\* nodes a DaemonSet can be scheduled on
MaxNodes == 2

-----------------------------------------------------------------------------
(* strings.py: names are sequences of one-character strings *)

HexDigits == <<"0", "1", "2", "3", "4", "5", "6", "7", "8", "9", "a", "b", "c", "d", "e", "f">>
Alphabet == <<"-", "0", "1", "2", "3", "4", "5", "6", "7", "8", "9", "a", "b", "c", "d", "e", "f", "j", "n", "o", "r", "u", "x">>

CharCode(c) == CHOOSE i \in 1..Len(Alphabet) : Alphabet[i] = c

RECURSIVE SumCodes(_, _)
SumCodes(s, i) == IF i > Len(s) THEN 0 ELSE i * CharCode(s[i]) + SumCodes(s, i + 1)

\* hashlib.md5(string.encode()).hexdigest()[:hash_len]: a fixed function of the
\* whole string giving hash_len hex digits
Md5Hex(string, hash_len) ==
    [k \in 1..hash_len |-> HexDigits[(((SumCodes(string, 1) + Len(string)) * (2 * k + 1)) % 16) + 1]]

\* Python slice bounds: a negative index counts from the end, and is clipped
ClipIndex(i, len) == IF i < 0 THEN (IF len + i < 0 THEN 0 ELSE len + i)
                     ELSE (IF i > len THEN len ELSE i)
\* string[:e] and string[b:]
SliceTo(s, e) == SubSeq(s, 1, ClipIndex(e, Len(s)))
SliceFrom(s, b) == SubSeq(s, ClipIndex(b, Len(s)) + 1, Len(s))

truncate(string, max_len, hash_len, suffix) ==
    IF Len(string) <= max_len THEN string
    ELSE SliceTo(string, max_len - hash_len - Len(suffix)) \o Md5Hex(string, hash_len) \o suffix

truncate_middle(string, max_len, hash_len, delimiter) ==
    IF Len(string) <= max_len THEN string
    ELSE LET upto == (max_len + hash_len + Len(delimiter)) \div 2
             from_ == (max_len - hash_len - Len(delimiter)) \div 2
         IN  truncate(SliceTo(string, upto + 1), upto, hash_len, delimiter) \o SliceFrom(string, 0 - from_)

\* the default arguments of truncate_middle
NAME_MAX_LEN == 63
HASH_LEN == 4
trunc(string) == truncate_middle(string, NAME_MAX_LEN, HASH_LEN, <<"-">>)

\* f'{i}' for i >= 0
RECURSIVE Decimal(_)
Decimal(i) == IF i < 10 THEN <<HexDigits[i + 1]>>
              ELSE Decimal(i \div 10) \o <<HexDigits[(i % 10) + 1]>>

\* spec['JOB_NAME'] + f'-{i}'
WithSuffix(name, i) == name \o <<"-">> \o Decimal(i)

RECURSIVE Repeat(_, _)
Repeat(s, n) == IF n = 0 THEN <<>> ELSE s \o Repeat(s, n - 1)

-----------------------------------------------------------------------------
(* The call stack of the reconcilers and the launcher *)

Modes == {"dry-run", "normal"}

Top == stack[Len(stack)]
Below == SubSeq(stack, 1, Len(stack) - 1)

Running(fn, pc) == outcome = "running" /\ Len(stack) > 0 /\ Top.fn = fn /\ Top.pc = pc

\* one kubectl command line and what came back
Call(cmd, resp) == [cmd |-> cmd, resp |-> resp]
Log(cmd, resp) == calls' = Append(calls, Call(cmd, resp))

\* the commands that change the cluster when they succeed
Mutating == {"create namespace", "create persistentvolumeclaim", "create daemonset", "create job"}

\* the executing frame moves to pc (and takes the new field values)
Goto(frame) == /\ stack' = Below \o <<frame>>
               /\ UNCHANGED <<outcome, retval, exc>>

\* the executing frame calls fn: it will resume at frame.pc
Invoke(frame, callee) == /\ stack' = Below \o <<frame, callee>>
                         /\ UNCHANGED <<outcome, retval, exc>>

\* `return v`
Return(v) == /\ stack' = Below
             /\ retval' = v
             /\ outcome' = IF Len(stack) = 1 THEN "returned" ELSE outcome
             /\ UNCHANGED exc

\* `raise e`: no frame of these functions catches an exception of a callee
Raise(e) == /\ stack' = <<>>
            /\ outcome' = "raised"
            /\ exc' = e
            /\ UNCHANGED retval

\* Executable.run: subprocess.run(..., check=check) raises on a non-zero exit
RunRaises(returncode, check) == check /\ returncode # 0

NsFrame(m) == [fn |-> "ensure_namespace", pc |-> "get", mode |-> m]
PvcFrame(r) == [fn |-> "ensure_pvc", pc |-> "ns1", retries |-> r, i |-> 0]
DsFrame == [fn |-> "ensure_daemonset", pc |-> "ns", retries |-> 0, ds_status |-> "none"]
JobFrame == [fn |-> "create_oneliner_job", pc |-> "pvc", JOB_NAME |-> <<>>, job_names |-> {}]

inputVars == <<op, mode, spec, quiet, callIdx, first, nsReadErr>>

-----------------------------------------------------------------------------
(* ensure_namespace(mode, logger, namespace=...) *)

\* what `kubectl get namespace NS -ojsonpath={.status.phase}` answers
GetNamespaceResp == IF nsReadErr # "none" THEN nsReadErr
                    ELSE IF ns = "Absent" THEN "NotFound" ELSE ns

\* variant: a Forbidden read is tolerated for every namespace
AfterGetNamespace_ForbiddenTolerated(resp) ==
    CASE resp = "Active" -> Return(spec.NAMESPACE)
      [] resp = "Terminating" -> Goto([Top EXCEPT !.pc = "wait"])
      [] resp = "NotFound" -> Goto([Top EXCEPT !.pc = "create"])
      [] resp = "Forbidden" -> Return(spec.NAMESPACE)
      [] OTHER -> Raise("RuntimeError")

\* variant: a Terminating namespace is recreated at once, without the wait
AfterGetNamespace_NoWait(resp) ==
    CASE resp = "Active" -> Return(spec.NAMESPACE)
      [] resp \in {"Terminating", "NotFound"} -> Goto([Top EXCEPT !.pc = "create"])
      [] resp = "Forbidden" ->
           IF spec.NAMESPACE = "default-tenant" THEN Return(spec.NAMESPACE)
           ELSE Raise("PermissionError")
      [] OTHER -> Raise("RuntimeError")

\* the branches on namespace_exists
AfterGetNamespace(resp) ==
    CASE resp = "Active" -> Return(spec.NAMESPACE)
      [] resp = "Terminating" -> Goto([Top EXCEPT !.pc = "wait"])
      [] resp = "NotFound" -> Goto([Top EXCEPT !.pc = "create"])
      [] resp = "Forbidden" ->
           IF spec.NAMESPACE = "default-tenant" THEN Return(spec.NAMESPACE)
           ELSE Raise("PermissionError")
      [] OTHER -> Raise("RuntimeError")

\* namespace_exists = kubectl.run('get namespace', ..., check=False)
EnsureNamespaceGet ==
    /\ Running("ensure_namespace", "get")
    /\ LET resp == GetNamespaceResp IN
       /\ Log("get namespace", resp)
       /\ AfterGetNamespace(resp)
    /\ UNCHANGED <<inputVars, ns, pvc, ds, jobs, envBudget, manifest, aw, cp, tm, lk, restVars>>

\* kubectl.stream('wait namespace', namespace, '--for=delete --timeout=600s'),
\* then the recursive call, which starts over at the read
EnsureNamespaceWait ==
    /\ Running("ensure_namespace", "wait")
    /\ IF ns = "Absent"
       THEN /\ Log("wait namespace --for=delete", "ok")
            /\ Goto([Top EXCEPT !.pc = "get"])
       ELSE /\ Log("wait namespace --for=delete", "timeout")
            /\ Raise("CalledProcessError")
    /\ UNCHANGED <<inputVars, ns, pvc, ds, jobs, envBudget, manifest, aw, cp, tm, lk, restVars>>

\* variant: the dry-run flag is left off the command
CreateNamespaceCmd_NoFlag(m) == "create namespace"

\* the ' --dry-run=client' argument of the create
CreateNamespaceCmd(m) == IF m = "dry-run" THEN "create namespace --dry-run=client"
                         ELSE "create namespace"

\* variant: the return code is tested before the AlreadyExists text
AfterCreateNamespace_ReturncodeFirst(resp) ==
    CASE resp \in {"AlreadyExists", "error"} -> Raise("RuntimeError")
      [] OTHER -> Return(spec.NAMESPACE)

\* what follows resp = kubectl.run('create namespace', ..., check=False)
AfterCreateNamespace(resp) ==
    CASE resp = "AlreadyExists" -> Goto([Top EXCEPT !.pc = "get"])
      [] resp = "error" -> Raise("RuntimeError")
      [] OTHER -> Return(spec.NAMESPACE)

\* resp = kubectl.run('create namespace', ..., check=False): the server creates
\* the namespace, or answers AlreadyExists when it is there (also while it
\* terminates), or refuses; with --dry-run=client nothing is sent to the server
EnsureNamespaceCreate ==
    /\ Running("ensure_namespace", "create")
    /\ LET cmd == CreateNamespaceCmd(Top.mode) IN
       \E resp \in {"ok", "AlreadyExists", "error"} :
          /\ cmd # "create namespace" => resp = "ok"
          /\ resp = "ok" => (cmd # "create namespace" \/ ns = "Absent")
          /\ resp = "AlreadyExists" => ns # "Absent"
          /\ Log(cmd, resp)
          /\ ns' = IF resp = "ok" /\ cmd = "create namespace" THEN "Active" ELSE ns
          /\ AfterCreateNamespace(resp)
    /\ UNCHANGED <<inputVars, pvc, ds, jobs, envBudget, manifest, aw, cp, tm, lk, restVars>>

-----------------------------------------------------------------------------
(* ensure_pvc(spec, logger, _retries=1) *)

\* ensure_namespace(spec['MODE'], logger, namespace=spec['NAMESPACE'])
EnsurePvcNamespace ==
    /\ Running("ensure_pvc", "ns1")
    /\ Invoke([Top EXCEPT !.pc = "exists"], NsFrame(spec.MODE))
    /\ UNCHANGED <<inputVars, ns, pvc, ds, jobs, envBudget, calls, manifest, aw, cp, tm, lk, restVars>>

\* variant: the existence check is skipped
PvcFound_Never == FALSE

\* kubectl.run('get persistentvolumeclaim --ignore-not-found', name).stdout
PvcFound == pvc # "Absent"

\* the dry-run return, else the existence check
EnsurePvcExists ==
    /\ Running("ensure_pvc", "exists")
    /\ IF spec.MODE = "dry-run"
       THEN /\ Return("None")
            /\ UNCHANGED calls
       ELSE /\ Log("get persistentvolumeclaim --ignore-not-found", pvc)
            /\ Goto([Top EXCEPT !.pc = IF PvcFound THEN "phase" ELSE "ns2"])
    /\ UNCHANGED <<inputVars, ns, pvc, ds, jobs, envBudget, manifest, aw, cp, tm, lk, restVars>>

\* the manifest is rendered, then ensure_namespace is called again
EnsurePvcNamespaceAgain ==
    /\ Running("ensure_pvc", "ns2")
    /\ Invoke([Top EXCEPT !.pc = "create"], NsFrame(spec.MODE))
    /\ UNCHANGED <<inputVars, ns, pvc, ds, jobs, envBudget, calls, manifest, aw, cp, tm, lk, restVars>>

\* what `kubectl create --filename pvc.yaml` answers
CreatePvcResp == IF ns = "Absent" THEN "error"
                 ELSE IF ns = "Terminating" THEN "terminated"
                 ELSE IF pvc # "Absent" THEN "AlreadyExists"
                 ELSE "ok"

\* variant: the retry does not look at _retries
AfterCreatePvc_AlwaysRetry(resp) ==
    IF resp # "ok" /\ resp = "terminated"
    THEN Invoke([Top EXCEPT !.pc = "phase"], PvcFrame(0))
    ELSE Goto([Top EXCEPT !.pc = "phase"])

\* the except clause around the create: retry once on 'terminated', and fall
\* through to the phase read in every case
AfterCreatePvc(resp) ==
    IF resp # "ok" /\ Top.retries # 0 /\ resp = "terminated"
    THEN Invoke([Top EXCEPT !.pc = "phase"], PvcFrame(0))
    ELSE Goto([Top EXCEPT !.pc = "phase"])

\* try: kubectl.stream('create --filename', path) except CalledProcessError
EnsurePvcCreate ==
    /\ Running("ensure_pvc", "create")
    /\ LET resp == CreatePvcResp IN
       /\ Log("create persistentvolumeclaim", resp)
       /\ pvc' = IF resp = "ok" THEN "Pending" ELSE pvc
       /\ AfterCreatePvc(resp)
    /\ UNCHANGED <<inputVars, ns, ds, jobs, envBudget, manifest, aw, cp, tm, lk, restVars>>

\* spec.get('PERSISTENT_VOLUME_CLAIM_DESIRED_STATES') or ['Bound']
pvc_desired_states == IF spec.DESIRED = <<>> THEN <<"Bound">> ELSE spec.DESIRED

InSeq(x, seq) == \E k \in 1..Len(seq) : seq[k] = x

\* pvc_status = kubectl.run('get persistentvolumeclaim --output', jsonpath, name).stdout
EnsurePvcPhase ==
    /\ Running("ensure_pvc", "phase")
    /\ Log("get persistentvolumeclaim phase", pvc)
    /\ IF RunRaises(IF pvc = "Absent" THEN 1 ELSE 0, TRUE) THEN Raise("CalledProcessError")
       ELSE IF InSeq(pvc, pvc_desired_states) THEN Return("None")
       ELSE Goto([Top EXCEPT !.pc = "wait", !.i = 1])
    /\ UNCHANGED <<inputVars, ns, pvc, ds, jobs, envBudget, manifest, aw, cp, tm, lk, restVars>>

\* one iteration of `for phase in pvc_desired_states + pvc_desired_states`:
\* out = kubectl.run(f'--for={jsonpath}={phase}'), a wait of 15 s; after the
\* last iteration the phase is read once more and RuntimeError(error_msg) raised
EnsurePvcWait ==
    /\ Running("ensure_pvc", "wait")
    /\ LET phases == pvc_desired_states \o pvc_desired_states
           phase == phases[Top.i]
           returncode == IF pvc = phase THEN 0 ELSE 1
           waited == Append(calls, Call("wait persistentvolumeclaim",
                                        IF returncode = 0 THEN phase ELSE "timeout"))
       IN  IF RunRaises(returncode, TRUE)
           THEN calls' = waited /\ Raise("CalledProcessError")
           ELSE IF returncode = 0
           THEN calls' = waited /\ Return("None")
           ELSE IF Top.i < Len(phases)
           THEN calls' = waited /\ Goto([Top EXCEPT !.i = Top.i + 1])
           ELSE /\ calls' = Append(waited, Call("get persistentvolumeclaim phase", pvc))
                /\ IF RunRaises(IF pvc = "Absent" THEN 1 ELSE 0, TRUE)
                   THEN Raise("CalledProcessError")
                   ELSE Raise("RuntimeError")
    /\ UNCHANGED <<inputVars, ns, pvc, ds, jobs, envBudget, manifest, aw, cp, tm, lk, restVars>>

-----------------------------------------------------------------------------
(* ensure_daemonset(spec, logger) *)

\* retries = 3
DS_RETRIES == 3

EnsureDaemonsetNamespace ==
    /\ Running("ensure_daemonset", "ns")
    /\ Invoke([Top EXCEPT !.pc = "get"], NsFrame(spec.MODE))
    /\ UNCHANGED <<inputVars, ns, pvc, ds, jobs, envBudget, calls, manifest, aw, cp, tm, lk, restVars>>

\* the DaemonSet object on the cluster and the {.status} read from it
DsAbsent == [exists |-> FALSE, desiredNumberScheduled |-> 0, numberReady |-> 0]
DsNew == [exists |-> TRUE, desiredNumberScheduled |-> 0, numberReady |-> 0]
DsStatus == [desiredNumberScheduled |-> ds.desiredNumberScheduled, numberReady |-> ds.numberReady]

Converged(status) == status.desiredNumberScheduled = status.numberReady

\* resp = get_status.run(check=False) and the branches on it, up to the loop
EnsureDaemonsetGet ==
    /\ Running("ensure_daemonset", "get")
    /\ Log("get daemonset", IF ~ds.exists THEN "NotFound" ELSE "ok")
    /\ IF ~ds.exists
       THEN IF spec.MODE # "dry-run" THEN Goto([Top EXCEPT !.pc = "create"])
            ELSE Return("None")
       ELSE IF spec.MODE = "dry-run" THEN Return("None")
            ELSE Goto([Top EXCEPT !.pc = "loop", !.ds_status = DsStatus, !.retries = DS_RETRIES])
    /\ UNCHANGED <<inputVars, ns, pvc, ds, jobs, envBudget, manifest, aw, cp, tm, lk, restVars>>

\* kubectl.run('create --filename', path): a new DaemonSet has nothing scheduled
EnsureDaemonsetCreate ==
    /\ Running("ensure_daemonset", "create")
    /\ LET returncode == IF ns = "Active" /\ ~ds.exists THEN 0 ELSE 1 IN
       /\ Log("create daemonset", IF returncode = 0 THEN "ok" ELSE "error")
       /\ ds' = IF returncode = 0 THEN DsNew ELSE ds
       /\ IF RunRaises(returncode, TRUE) THEN Raise("CalledProcessError")
          ELSE Goto([Top EXCEPT !.pc = "get2"])
    /\ UNCHANGED <<inputVars, ns, pvc, jobs, envBudget, manifest, aw, cp, tm, lk, restVars>>

\* resp = get_status.run() after the create
EnsureDaemonsetGetAgain ==
    /\ Running("ensure_daemonset", "get2")
    /\ Log("get daemonset", IF ~ds.exists THEN "NotFound" ELSE "ok")
    /\ IF RunRaises(IF ~ds.exists THEN 1 ELSE 0, TRUE) THEN Raise("CalledProcessError")
       ELSE Goto([Top EXCEPT !.pc = "loop", !.ds_status = DsStatus, !.retries = DS_RETRIES])
    /\ UNCHANGED <<inputVars, ns, pvc, ds, jobs, envBudget, manifest, aw, cp, tm, lk, restVars>>

\* the while loop: one pass (retries -= 1, sleep, read again), or the exit
\* with `if not retries: raise`
EnsureDaemonsetLoop ==
    /\ Running("ensure_daemonset", "loop")
    /\ IF ~Converged(Top.ds_status) /\ Top.retries # 0
       THEN /\ Log("get daemonset", IF ~ds.exists THEN "NotFound" ELSE "ok")
            /\ IF RunRaises(IF ~ds.exists THEN 1 ELSE 0, TRUE) THEN Raise("CalledProcessError")
               ELSE Goto([Top EXCEPT !.retries = Top.retries - 1, !.ds_status = DsStatus])
       ELSE /\ UNCHANGED calls
            /\ IF Top.retries = 0 THEN Raise("RuntimeError") ELSE Return("None")
    /\ UNCHANGED <<inputVars, ns, pvc, ds, jobs, envBudget, manifest, aw, cp, tm, lk, restVars>>

-----------------------------------------------------------------------------
(* create_oneliner_job(spec, command, container_name, await_completion=False, mode) *)

\* range(1, 1000)
SUFFIX_END == 1000

\* variant: the search starts one suffix too far, as with range(2, 1000)
NextFreeSuffix_FromTwo(name, job_names, i) ==
    IF trunc(WithSuffix(name, i + 1)) \notin job_names THEN i + 1 ELSE i + 2

\* variant: the search goes one candidate past the end of the range
NextFreeSuffix_PastEnd(name, job_names, i) ==
    LET free(k) == trunc(WithSuffix(name, k)) \notin job_names IN
    IF \A k \in i..SUFFIX_END : ~free(k) THEN 0
    ELSE CHOOSE k \in i..SUFFIX_END : free(k) /\ \A j \in i..(k - 1) : ~free(j)

\* next(i for i in range(1, 1000) if trunc(name + f'-{i}') not in job_names);
\* 0 stands for the StopIteration of an exhausted generator
NextFreeSuffix(name, job_names, i) ==
    LET free(k) == trunc(WithSuffix(name, k)) \notin job_names IN
    IF \A k \in i..(SUFFIX_END - 1) : ~free(k) THEN 0
    ELSE CHOOSE k \in i..(SUFFIX_END - 1) : free(k) /\ \A j \in i..(k - 1) : ~free(j)

\* the collision test of the launcher
NameTaken(name, job_names) == job_names # {} /\ name \in job_names

\* ensure_pvc(spec, logger): the spec as the caller passed it
LauncherEnsurePvc ==
    /\ Running("create_oneliner_job", "pvc")
    /\ Invoke([Top EXCEPT !.pc = "name"], PvcFrame(1))
    /\ UNCHANGED <<inputVars, ns, pvc, ds, jobs, envBudget, calls, manifest, aw, cp, tm, lk, restVars>>

\* spec.update({'JOB_NAME': trunc(...), 'MODE': mode, ...}) and the dry-run return
LauncherName ==
    /\ Running("create_oneliner_job", "name")
    /\ LET name == trunc(spec.JOB_NAME) IN
       IF mode = "dry-run" THEN Return(name)
       ELSE Goto([Top EXCEPT !.pc = "jobs", !.JOB_NAME = name])
    /\ UNCHANGED <<inputVars, ns, pvc, ds, jobs, envBudget, calls, manifest, aw, cp, tm, lk, restVars>>

\* get jobs --output name, the suffix search, and batch_job.generate_template,
\* which truncates the name once more
LauncherListing ==
    /\ Running("create_oneliner_job", "jobs")
    /\ Log("get jobs", jobs)
    /\ LET job_names == jobs
           suf == NextFreeSuffix(Top.JOB_NAME, job_names, 1)
       IN  IF NameTaken(Top.JOB_NAME, job_names)
           THEN IF suf = 0 THEN Raise("StopIteration")
                ELSE Goto([Top EXCEPT !.pc = "create", !.job_names = job_names,
                                      !.JOB_NAME = trunc(trunc(WithSuffix(Top.JOB_NAME, suf)))])
           ELSE Goto([Top EXCEPT !.pc = "create", !.job_names = job_names,
                                 !.JOB_NAME = trunc(Top.JOB_NAME)])
    /\ UNCHANGED <<inputVars, ns, pvc, ds, jobs, envBudget, manifest, aw, cp, tm, lk, restVars>>

\* batch_job.generate_template writes the manifest file; then
\* kubectl.stream('create --filename', path), log.redact_file(path, redact),
\* the completion wait when await_completion is set, and return spec['JOB_NAME']
LauncherSubmit ==
    /\ Running("create_oneliner_job", "create")
    /\ \E await_completion \in BOOLEAN, completed \in BOOLEAN :
       LET ok == ns = "Active" /\ Top.JOB_NAME \notin jobs IN
       /\ Log("create job", IF ok THEN "ok" ELSE "error")
       /\ jobs' = IF ok THEN jobs \cup {Top.JOB_NAME} ELSE jobs
       /\ manifest' = IF ok THEN "redacted" ELSE "written"
       /\ IF ~ok THEN Raise("CalledProcessError")
          ELSE IF await_completion /\ ~completed THEN Raise("RuntimeError")
          ELSE Return(Top.JOB_NAME)
    /\ UNCHANGED <<inputVars, ns, pvc, ds, envBudget, aw, cp, tm, lk, restVars>>

-----------------------------------------------------------------------------
(* The cluster and the other actors on it.  They act only while a call runs *)
(* and the episode is not a quiet one.                                      *)

EnvMay == outcome = "running" /\ ~quiet /\ envBudget > 0

progVars == <<op, mode, spec, quiet, stack, outcome, retval, exc, callIdx, first, nsReadErr, calls>>

\* another caller creates the namespace
EnvCreateNamespace ==
    /\ EnvMay /\ ns = "Absent"
    /\ ns' = "Active" /\ envBudget' = envBudget - 1
    /\ UNCHANGED <<progVars, pvc, ds, jobs, manifest, aw, cp, tm, lk, restVars>>

\* somebody deletes the namespace
EnvDeleteNamespace ==
    /\ EnvMay /\ ns = "Active"
    /\ ns' = "Terminating" /\ envBudget' = envBudget - 1
    /\ UNCHANGED <<progVars, pvc, ds, jobs, manifest, aw, cp, tm, lk, restVars>>

\* the deletion completes: the namespace and what it holds are gone
EnvNamespaceGone ==
    /\ EnvMay /\ ns = "Terminating"
    /\ ns' = "Absent" /\ pvc' = "Absent" /\ ds' = DsAbsent /\ jobs' = {}
    /\ envBudget' = envBudget - 1
    /\ UNCHANGED <<progVars, manifest, aw, cp, tm, lk, restVars>>

\* the volume controller binds the claim
EnvBindPvc ==
    /\ EnvMay /\ pvc = "Pending"
    /\ pvc' = "Bound" /\ envBudget' = envBudget - 1
    /\ UNCHANGED <<progVars, ns, ds, jobs, manifest, aw, cp, tm, lk, restVars>>

\* the DaemonSet controller schedules pods on the nodes, pods become ready
EnvDaemonsetProgress ==
    /\ EnvMay /\ ds.exists
    /\ \E d \in 0..MaxNodes, r \in 0..MaxNodes :
          /\ r <= d
          /\ <<d, r>> # <<ds.desiredNumberScheduled, ds.numberReady>>
          /\ ds' = [exists |-> TRUE, desiredNumberScheduled |-> d, numberReady |-> r]
    /\ envBudget' = envBudget - 1
    /\ UNCHANGED <<progVars, ns, pvc, jobs, manifest, aw, cp, tm, lk, restVars>>

-----------------------------------------------------------------------------
(* The episodes: one call, or in a quiet episode the same call twice *)

Reconcilers == {"ensure_namespace", "ensure_pvc", "ensure_daemonset"}

FirstFrame(o) == CASE o = "ensure_namespace" -> NsFrame(mode)
                   [] o = "ensure_pvc" -> PvcFrame(1)
                   [] o = "ensure_daemonset" -> DsFrame
                   [] OTHER -> JobFrame

\* the same function is called again with the same input
CallAgain ==
    /\ quiet /\ callIdx = 1 /\ op \in Reconcilers
    /\ outcome \in {"returned", "raised"}
    /\ first' = [outcome |-> outcome, retval |-> retval, exc |-> exc, calls |-> calls]
    /\ callIdx' = 2
    /\ stack' = <<FirstFrame(op)>>
    /\ outcome' = "running" /\ retval' = "none" /\ exc' = "none"
    /\ calls' = <<>>
    /\ UNCHANGED <<op, mode, spec, quiet, nsReadErr, ns, pvc, ds, jobs, envBudget, manifest, aw, cp, tm, lk, restVars>>

LongName(n) == <<"j", "o", "b">> \o Repeat(<<"x">>, n - 3)
JobBases == {<<"r", "u", "n">>, LongName(62), LongName(70)}

\* the longest base name tried with a listing that holds every candidate
ShortName == 3

\* job listings around a base name: free, taken, taken with suffixes taken,
\* taken with every candidate of the search taken
Listings(base) ==
    LET b == trunc(base)
        c1 == trunc(WithSuffix(b, 1))
        c2 == trunc(WithSuffix(b, 2))
        all == {b} \cup {trunc(WithSuffix(b, k)) : k \in 1..(SUFFIX_END - 1)}
    IN  {{}, {b}, {b, c1}, {b, c1, c2}, {b, c2}, {c1}, {<<"o">>}} \cup
        (IF Len(base) <= ShortName THEN {all} ELSE {})

DsStates == {DsAbsent} \cup
            {[exists |-> TRUE, desiredNumberScheduled |-> d, numberReady |-> r] :
               d \in 0..MaxNodes, r \in 0..MaxNodes}

NoFirst == [outcome |-> "none", retval |-> "none", exc |-> "none", calls |-> <<>>]

AwIdle == [pc |-> "idle"]
CpIdle == [pc |-> "idle"]
TmIdle == [pc |-> "idle"]
LkIdle == [pc |-> "idle"]

RecIdle == /\ op = "none" /\ mode = "normal" /\ quiet = TRUE
           /\ spec = [MODE |-> "normal", NAMESPACE |-> "demo", DESIRED |-> <<>>, JOB_NAME |-> <<>>]
           /\ stack = <<>> /\ outcome = "idle" /\ retval = "none" /\ exc = "none"
           /\ callIdx = 1 /\ first = NoFirst
           /\ ns = "Absent" /\ nsReadErr = "none" /\ pvc = "Absent" /\ ds = DsAbsent
           /\ jobs = {} /\ envBudget = 0 /\ calls = <<>> /\ manifest = "none"

\* nothing but the functions of k8s_utils is called
NrIdle == [pc |-> "idle"]
FiIdle == [pc |-> "idle"]
SzIdle == [pc |-> "idle"]
TkIdle == [pc |-> "idle"]
RestIdle == nr = NrIdle /\ fi = FiIdle /\ sz = SzIdle /\ tk = TkIdle

OthersIdle == tm = TmIdle /\ lk = LkIdle /\ RestIdle

InitRec ==
    /\ aw = AwIdle /\ cp = CpIdle /\ OthersIdle
    /\ outcome = "running" /\ retval = "none" /\ exc = "none"
    /\ callIdx = 1 /\ first = NoFirst
    /\ calls = <<>> /\ manifest = "none"
    /\ ns \in {"Absent", "Active", "Terminating"}
    /\ \/ /\ op = "ensure_namespace"
          /\ mode \in Modes /\ quiet \in BOOLEAN
          /\ nsReadErr \in {"none", "Forbidden", "Other"}
          /\ \E n \in {"demo", "default-tenant"} :
                /\ n = "default-tenant" => nsReadErr = "Forbidden"
                /\ spec = [MODE |-> mode, NAMESPACE |-> n, DESIRED |-> <<>>, JOB_NAME |-> <<>>]
          /\ pvc = "Absent" /\ ds = DsAbsent /\ jobs = {}
       \/ /\ op = "ensure_pvc"
          /\ mode \in Modes /\ quiet \in BOOLEAN /\ nsReadErr = "none"
          /\ \E d \in {<<>>, <<"Pending">>, <<"Pending", "Bound">>} :
                spec = [MODE |-> mode, NAMESPACE |-> "demo", DESIRED |-> d, JOB_NAME |-> <<>>]
          /\ pvc \in {"Absent", "Pending", "Bound", "Lost"}
          /\ ns = "Absent" => pvc = "Absent"
          /\ ds = DsAbsent /\ jobs = {}
       \/ /\ op = "ensure_daemonset"
          /\ mode \in Modes /\ quiet \in BOOLEAN /\ nsReadErr = "none"
          /\ spec = [MODE |-> mode, NAMESPACE |-> "demo", DESIRED |-> <<>>, JOB_NAME |-> <<>>]
          /\ ds \in DsStates
          /\ ds.numberReady <= ds.desiredNumberScheduled
          /\ ns = "Absent" => ds = DsAbsent
          /\ pvc = "Absent" /\ jobs = {}
       \/ /\ op = "create_oneliner_job"
          /\ mode \in Modes /\ quiet = FALSE /\ nsReadErr = "none"
          /\ \E m \in Modes, b \in JobBases :
                /\ spec = [MODE |-> m, NAMESPACE |-> "demo", DESIRED |-> <<"Pending", "Bound">>, JOB_NAME |-> b]
                /\ jobs \in Listings(b)
          /\ pvc \in {"Absent", "Bound"}
          /\ ns = "Absent" => (pvc = "Absent" /\ jobs = {})
          /\ ds = DsAbsent
    /\ stack = <<FirstFrame(op)>>
    /\ envBudget = IF quiet THEN 0 ELSE MaxEnvChanges

NextRec ==
    \/ EnsureNamespaceGet \/ EnsureNamespaceWait \/ EnsureNamespaceCreate
    \/ EnsurePvcNamespace \/ EnsurePvcExists \/ EnsurePvcNamespaceAgain
    \/ EnsurePvcCreate \/ EnsurePvcPhase \/ EnsurePvcWait
    \/ EnsureDaemonsetNamespace \/ EnsureDaemonsetGet \/ EnsureDaemonsetCreate
    \/ EnsureDaemonsetGetAgain \/ EnsureDaemonsetLoop
    \/ LauncherEnsurePvc \/ LauncherName \/ LauncherListing \/ LauncherSubmit
    \/ EnvCreateNamespace \/ EnvDeleteNamespace \/ EnvNamespaceGone
    \/ EnvBindPvc \/ EnvDaemonsetProgress
    \/ CallAgain

SpecRec == InitRec /\ [][NextRec]_vars

-----------------------------------------------------------------------------
(* await_k8s_job_completion(spec, tail) *)

\* consts.RETRIES_DEFAULT
RETRIES_DEFAULT == 6

\* wait submissions counted by the model; the count stops there
MaxWaits == 4
\* pod failures a Job survives before it is failed
MaxPodFailures == 1

\* variant: the delay grows by one second
Pow2_Linear(n) == n + 1

RECURSIVE Pow2(_)
Pow2(n) == IF n = 0 THEN 1 ELSE 2 * Pow2(n - 1)

\* itertools.cycle(['condition=complete', 'condition=failed'])
conditions == <<"condition=complete", "condition=failed">>
\* variant: every wait is for the first condition
NextCondition_AlwaysFirst(k) == conditions[1]

NextCondition(k) == conditions[(k % Len(conditions)) + 1]

JobVisible == aw.job.state \in {"Active", "Complete", "Failed"}

\* kubectl_run(job_status_cmd): `get job --output jsonpath={.status} NAME`, check=False
StatusResp ==
    IF JobVisible
    THEN [returncode |-> 0, stderr |-> "", stdout |-> [json |-> TRUE, status |-> aw.job.status]]
    ELSE [returncode |-> 1, stderr |-> "NotFound", stdout |-> [json |-> FALSE, status |-> <<>>]]

\* kubectl_run(wait_job_cmd, condition): `wait job NAME --timeout=..s --for condition`
WaitResp(condition) ==
    IF aw.forbidden THEN [returncode |-> 1, stderr |-> "Forbidden"]
    ELSE IF ~JobVisible THEN [returncode |-> 1, stderr |-> "NotFound"]
    ELSE IF \/ condition = "condition=complete" /\ aw.job.state = "Complete"
            \/ condition = "condition=failed" /\ aw.job.state = "Failed"
         THEN [returncode |-> 0, stderr |-> ""]
    ELSE [returncode |-> 1, stderr |-> "timed out waiting for the condition"]

\* response.stderr.startswith(RESOURCE_NOT_FOUND)
IsNotFound(response) == response.stderr = "NotFound"
\* WAIT_TIMEOUT_ERROR in response.stderr
IsWaitTimeout(response) == response.stderr = "timed out waiting for the condition"

AwRunning(pc) == aw.pc = pc

NoStatus == [succeeded |-> 0, failed |-> 0]
\* the text of a raised error that embeds neither the name nor a status
Message(text) == [text |-> text, name |-> "", terminal_status |-> NoStatus]

\* the next wait is submitted: response = kubectl_run(wait_job_cmd, next(conditions))
SubmitWait(a) ==
    LET condition == NextCondition(a.cycle) IN
    [a EXCEPT !.response = WaitResp(condition),
              !.cycle = (a.cycle + 1) % Len(conditions),
              !.lastCondition = condition,
              !.nwaits = IF a.nwaits < MaxWaits THEN a.nwaits + 1 ELSE a.nwaits]

\* the checks of the spec keys, the dry-run return, and the first status read
AwaitBegin ==
    /\ AwRunning("start")
    /\ aw' = IF aw.mode = "dry-run"
             THEN [aw EXCEPT !.pc = "returned", !.result = "True"]
             ELSE [aw EXCEPT !.pc = "backoff", !.response = StatusResp,
                             !.retry_count = RETRIES_DEFAULT]
    /\ UNCHANGED <<recVars, cp, tm, lk, restVars>>

\* the while loop on NotFound: sleep 2 ** (retry_total - retry_count), read again;
\* after it the pod snapshot is printed
AwaitBackoff ==
    /\ AwRunning("backoff")
    /\ aw' = IF aw.response.returncode # 0 /\ IsNotFound(aw.response) /\ aw.retry_count # 0
             THEN [aw EXCEPT !.slept = Append(aw.slept, Pow2(RETRIES_DEFAULT - aw.retry_count)),
                             !.retry_count = aw.retry_count - 1,
                             !.response = StatusResp]
             ELSE [aw EXCEPT !.pc = "wait"]
    /\ UNCHANGED <<recVars, cp, tm, lk, restVars>>

\* response = kubectl_run(wait_job_cmd, next(conditions)), the first wait
AwaitFirstWait ==
    /\ AwRunning("wait")
    /\ aw' = [SubmitWait(aw) EXCEPT !.pc = "loop"]
    /\ UNCHANGED <<recVars, cp, tm, lk, restVars>>

\* one test of `while response.returncode:` and the body of the loop
AwaitLoop ==
    /\ AwRunning("loop")
    /\ aw' = IF aw.response.returncode = 0 THEN [aw EXCEPT !.pc = "terminal"]
             ELSE IF IsNotFound(aw.response)
             THEN [aw EXCEPT !.pc = "raised", !.exc = "RuntimeError",
                             !.msg = Message("Was the job deleted?"), !.events = TRUE]
             ELSE IF ~IsWaitTimeout(aw.response)
             THEN [aw EXCEPT !.pc = "raised", !.exc = "RuntimeError", !.msg = Message(aw.response.stderr)]
             ELSE SubmitWait(aw)
    /\ UNCHANGED <<recVars, cp, tm, lk, restVars>>

\* json.loads(stdout): a JSONDecodeError on text that is no JSON document
JsonLoads(stdout) == IF stdout.json THEN [ok |-> TRUE, value |-> stdout.status]
                     ELSE [ok |-> FALSE, value |-> <<>>]

\* variant: the failed count is looked at first
TerminalVerdict_FailedFirst(terminal_status) ==
    IF terminal_status.failed # 0 THEN "raise" ELSE "True"

\* if terminal_status.get('succeeded'): return True ... raise RuntimeError
TerminalVerdict(terminal_status) ==
    IF terminal_status.succeeded # 0 THEN "True" ELSE "raise"

\* after the loop: pods and logs are printed, the status is read and judged
AwaitTerminal ==
    /\ AwRunning("terminal")
    /\ LET parsed == JsonLoads(StatusResp.stdout) IN
       aw' = IF ~parsed.ok
             THEN [aw EXCEPT !.pc = "raised", !.exc = "RuntimeError",
                             !.msg = Message("Failed to fetch job status")]
             ELSE IF TerminalVerdict(parsed.value) = "True"
             THEN [aw EXCEPT !.pc = "returned", !.result = "True", !.read = TRUE,
                             !.terminal_status = parsed.value]
             ELSE [aw EXCEPT !.pc = "raised", !.exc = "RuntimeError", !.read = TRUE,
                             !.terminal_status = parsed.value,
                             !.msg = [text |-> "name=, terminal_status=", name |-> aw.name,
                                      terminal_status |-> parsed.value]]
    /\ UNCHANGED <<recVars, cp, tm, lk, restVars>>

(* The Job on the cluster while the poller runs *)

AwLive == aw.pc \notin {"idle", "returned", "raised"}

\* the Job becomes visible to the API
EnvJobVisible ==
    /\ AwLive /\ aw.job.state = "Absent"
    /\ aw' = [aw EXCEPT !.job.state = "Active"]
    /\ UNCHANGED <<recVars, cp, tm, lk, restVars>>

\* a pod of the Job fails or is deleted, and the Job starts another
EnvPodFails ==
    /\ AwLive /\ aw.job.state = "Active" /\ aw.job.status.failed < MaxPodFailures
    /\ aw' = [aw EXCEPT !.job.status.failed = aw.job.status.failed + 1]
    /\ UNCHANGED <<recVars, cp, tm, lk, restVars>>

\* a pod succeeds: condition Complete
EnvJobCompletes ==
    /\ AwLive /\ aw.job.state = "Active"
    /\ aw' = [aw EXCEPT !.job.state = "Complete", !.job.status.succeeded = 1]
    /\ UNCHANGED <<recVars, cp, tm, lk, restVars>>

\* condition Failed: the backoff limit after a pod failure, or the deadline
\* with no pod counted as failed
EnvJobFails ==
    /\ AwLive /\ aw.job.state = "Active"
    /\ aw' = [aw EXCEPT !.job.state = "Failed"]
    /\ UNCHANGED <<recVars, cp, tm, lk, restVars>>

\* the Job is deleted
EnvJobDeleted ==
    /\ AwLive /\ JobVisible
    /\ aw' = [aw EXCEPT !.job.state = "Deleted"]
    /\ UNCHANGED <<recVars, cp, tm, lk, restVars>>

InitAwait ==
    /\ RecIdle /\ cp = CpIdle /\ OthersIdle
    /\ \E m \in Modes, f \in BOOLEAN, st \in {"Absent", "Active"} :
          aw = [pc |-> "start", mode |-> m, name |-> "run", forbidden |-> f,
                job |-> [state |-> st, status |-> NoStatus],
                response |-> [returncode |-> 0, stderr |-> ""],
                retry_count |-> 0, slept |-> <<>>, cycle |-> 0, lastCondition |-> "none",
                nwaits |-> 0, events |-> FALSE, result |-> "none", exc |-> "none",
                msg |-> Message("none"), read |-> FALSE, terminal_status |-> NoStatus]

AwaitProgram == AwaitBegin \/ AwaitBackoff \/ AwaitFirstWait \/ AwaitLoop \/ AwaitTerminal

NextAwait ==
    \/ AwaitBegin \/ AwaitBackoff \/ AwaitFirstWait \/ AwaitLoop \/ AwaitTerminal
    \/ EnvJobVisible \/ EnvPodFails \/ EnvJobCompletes \/ EnvJobFails \/ EnvJobDeleted

SpecAwait == InitAwait /\ [][NextAwait]_vars

\* the interpreter keeps running the poller; the cluster owes it nothing
SpecAwaitFair == SpecAwait /\ WF_vars(AwaitProgram)

-----------------------------------------------------------------------------
(* kubectl_cp(src, dest, mode, retries) and _dl, _up, _remote_to_remote *)

\* the largest retries argument tried
MaxRetries == 3
\* the largest size, in KiB, reported by du or free on the local disk
MaxSize == 2

\* Unit.UNIT_FACTORS['K']
UNIT_FACTOR_K == 1024

LocalPath == <<"/", "f">>
RemotePath == <<"p", ":", "/", "f">>
RemoteNoPath == <<"p", ":">>
Paths == {LocalPath, RemotePath, RemoteNoPath}

\* what a file holds
Contents == {<<"a">>, <<"b">>, <<"a", "b">>}

\* md5sum(path): the hex digest of the bytes of the file
md5sum(content) == Md5Hex(content, 32)

\* variant: every string counts as remote
HasColon_Always(string) == TRUE

\* ':' in string
HasColon(string) == \E i \in 1..Len(string) : string[i] = ":"

\* _parse_remote_path, for strings without whitespace: host and path
\* around the first ':'
parse_remote_path(string) ==
    IF ~HasColon(string) THEN [host |-> string, path |-> <<>>]
    ELSE LET i == CHOOSE k \in 1..Len(string) :
                      string[k] = ":" /\ \A j \in 1..(k - 1) : string[j] # ":"
         IN [host |-> SubSeq(string, 1, i - 1), path |-> SubSeq(string, i + 1, Len(string))]

\* `retries or 1`
RetriesOrOne(retries) == IF retries = 0 THEN 1 ELSE retries
\* max(1, retries)
MaxAttempts(retries) == IF retries > 1 THEN retries ELSE 1

\* the value a call returned: an int, None, or the list of exit codes
IntResult(n) == [kind |-> "int", int |-> n, list |-> <<>>]
NoneResult == [kind |-> "None", int |-> 0, list |-> <<>>]
ListResult(l) == [kind |-> "list", int |-> 0, list |-> l]

CpRunning(pc) == cp.pc = pc
CpReturn(c, result) == [c EXCEPT !.pc = "returned", !.result = result]
CpRaise(c, e) == [c EXCEPT !.pc = "raised", !.exc = e]
\* a child process is started
Started(c, name) == [c EXCEPT !.started = Append(c.started, name)]
\* the local filesystem is consulted
Touched(c, call) == [c EXCEPT !.touched = Append(c.touched, call)]

\* kubectl_cp: the two paths are classified and the call is passed on
KubectlCp ==
    /\ CpRunning("start")
    /\ LET is_remote_src == HasColon(cp.src)
           is_remote_dest == HasColon(cp.dest)
           c == [cp EXCEPT !.retries = RetriesOrOne(cp.retries)]
       IN cp' = IF ~(is_remote_src \/ is_remote_dest) THEN CpRaise(cp, "ValueError")
                ELSE IF is_remote_src /\ is_remote_dest THEN [c EXCEPT !.pc = "r2r"]
                ELSE IF is_remote_src THEN [c EXCEPT !.pc = "dl_wait"]
                ELSE [c EXCEPT !.pc = "up"]
    /\ UNCHANGED <<recVars, aw, tm, lk, restVars>>

\* _dl: kubectl.stream('wait --for=condition=ready pod --timeout=120s', waitable)
DlWait ==
    /\ CpRunning("dl_wait")
    /\ \E ready \in BOOLEAN :
          cp' = IF ready THEN [Started(cp, "kubectl wait") EXCEPT !.pc = "dl_du"]
                ELSE CpRaise(Started(cp, "kubectl wait"), "CalledProcessError")
    /\ UNCHANGED <<recVars, aw, tm, lk, restVars>>

\* _dl: resp = kubectl.run('exec', remote, '-- du -sh', s_path, check=False)
DlDu ==
    /\ CpRunning("dl_du")
    /\ \E returncode \in {0, 1} :
          cp' = IF returncode # 0 THEN CpRaise(Started(cp, "kubectl exec du"), "RuntimeError")
                ELSE [Started(cp, "kubectl exec du") EXCEPT !.pc = "dl_disk"]
    /\ UNCHANGED <<recVars, aw, tm, lk, restVars>>

\* Unit(resp.stdout.split()[0]): a number and a unit, ValueError without the unit
UnitParses(text) == text.unit # ""
\* variant: the comparison never finds the size too large
ExceedsFree_Never(needed, free) == FALSE

\* needed_disk > available_disk, the free space given in bytes
ExceedsFree(needed, free) == needed.value * UNIT_FACTOR_K > free

\* _dl: the free space, the size reported by du, and their comparison
DlDisk ==
    /\ CpRunning("dl_disk")
    /\ LET c == Touched(cp, "shutil.disk_usage") IN
       cp' = IF ~UnitParses(c.du) THEN CpRaise(c, "ValueError")
             ELSE IF ExceedsFree(c.du, c.free) THEN CpRaise(c, "OSError")
             ELSE [c EXCEPT !.pc = "dl_cp", !.sizeChecked = TRUE]
    /\ UNCHANGED <<recVars, aw, tm, lk, restVars>>

\* kubectl.stream('cp --retries=N', src, dest, mode=mode): nothing runs in
\* dry-run; otherwise kubectl cp writes the destination and exits with 0, or
\* fails. What it wrote is the source, or something else when the stream was
\* damaged on the way.
StreamCp(c, written, returncode) ==
    IF c.mode = "dry-run" THEN CpReturn(c, IntResult(0))
    ELSE IF returncode # 0 THEN CpRaise(Started(c, "kubectl cp"), "CalledProcessError")
    ELSE CpReturn([Started(c, "kubectl cp") EXCEPT !.destContent = written, !.destWritten = TRUE],
                  IntResult(0))

\* _dl: the copy, and `return 0`
DlCopy ==
    /\ CpRunning("dl_cp")
    /\ \E written \in Contents, returncode \in {0, 1} : cp' = StreamCp(cp, written, returncode)
    /\ UNCHANGED <<recVars, aw, tm, lk, restVars>>

\* _up: the source must exist outside dry-run; the copy, and `return 0`
Up ==
    /\ CpRunning("up")
    /\ \E written \in Contents, returncode \in {0, 1} :
          LET c == Touched(cp, "os.path.exists") IN
          cp' = IF ~c.srcExists /\ c.mode # "dry-run" THEN CpRaise(c, "FileNotFoundError")
                ELSE StreamCp(c, written, returncode)
    /\ UNCHANGED <<recVars, aw, tm, lk, restVars>>

\* _remote_to_remote up to the loop: the paths are parsed, an empty source
\* path returns 1, dry-run returns None
RemoteToRemote ==
    /\ CpRunning("r2r")
    /\ cp' = IF parse_remote_path(cp.src).path = <<>> THEN CpReturn(cp, IntResult(1))
             ELSE IF cp.mode = "dry-run" THEN CpReturn(cp, NoneResult)
             ELSE [cp EXCEPT !.pc = "r2r_attempt", !.attempt = 0,
                             !.max_attempts = MaxAttempts(cp.retries), !.exit_codes = <<>>]
    /\ UNCHANGED <<recVars, aw, tm, lk, restVars>>

\* tuple(*args): the constructor takes one iterable, and raises TypeError
\* when it is given more than one argument
PyTuple(args) == IF Len(args) > 1 THEN [ok |-> FALSE, value |-> <<>>]
                 ELSE [ok |-> TRUE, value |-> args]

\* variant: only the source child is looked after
KillRunning_SourceOnly(c) ==
    [c EXCEPT !.src_proc = IF c.src_proc = "running" THEN "killed" ELSE c.src_proc]

\* finally: for p in (src_proc, dest_proc): if p and p.poll() is None: p.kill()
KillRunning(c) ==
    [c EXCEPT !.src_proc = IF c.src_proc = "running" THEN "killed" ELSE c.src_proc,
              !.dest_proc = IF c.dest_proc = "running" THEN "killed" ELSE c.dest_proc]

\* one turn of `while True:`: both children are started and awaited, the
\* finally clause kills a child that still runs, then the exit codes decide.
\* A Popen may raise OSError, a wait may be cut short by KeyboardInterrupt.
RemoteToRemoteAttempt ==
    /\ CpRunning("r2r_attempt")
    /\ \E spawned \in {"none", "src", "both", "interrupted"}, src_rc \in {0, 1}, dest_rc \in {0, 1} :
        LET c == [cp EXCEPT !.attempt = cp.attempt + 1, !.src_proc = "none", !.dest_proc = "none"]
            one == [Started(c, "kubectl exec tar cf") EXCEPT !.src_proc = "running"]
            two == [Started(one, "kubectl exec tar xf") EXCEPT !.dest_proc = "running"]
            ran == [two EXCEPT !.attempts = Append(c.attempts, <<src_rc, dest_rc>>),
                               !.src_proc = "exited", !.dest_proc = "exited"]
            pair == PyTuple(<<src_rc, dest_rc>>)
            failed == [ran EXCEPT !.exit_codes = Append(ran.exit_codes, pair.value)]
        IN cp' = IF spawned = "none" THEN CpRaise(KillRunning(c), "OSError")
                 ELSE IF spawned = "src" THEN CpRaise(KillRunning(one), "OSError")
                 ELSE IF spawned = "interrupted" THEN CpRaise(KillRunning(two), "KeyboardInterrupt")
                 ELSE IF src_rc = 0 /\ dest_rc = 0
                 THEN CpReturn(KillRunning([ran EXCEPT !.destContent = ran.srcContent,
                                                       !.destWritten = TRUE]),
                               IntResult(0))
                 ELSE IF ~pair.ok THEN CpRaise(KillRunning(ran), "TypeError")
                 ELSE IF failed.attempt >= failed.max_attempts
                 THEN CpReturn(KillRunning(failed), ListResult(failed.exit_codes))
                 ELSE KillRunning(failed)
    /\ UNCHANGED <<recVars, aw, tm, lk, restVars>>

DuOutputs == {[value |-> 0, unit |-> ""]} \cup {[value |-> v, unit |-> "K"] : v \in 1..MaxSize}
FreeBytes == {k * UNIT_FACTOR_K : k \in 0..MaxSize}

InitCp ==
    /\ RecIdle /\ aw = AwIdle /\ OthersIdle
    /\ \E src \in Paths, dest \in Paths, m \in Modes, retries \in -1..MaxRetries,
          content \in Contents, exists \in BOOLEAN, du \in DuOutputs, free \in FreeBytes :
          /\ ~(~HasColon(src) /\ HasColon(dest)) => exists
          /\ ~(HasColon(src) /\ ~HasColon(dest)) => du = [value |-> 1, unit |-> "K"] /\ free = 0
          /\ cp = [pc |-> "start", src |-> src, dest |-> dest, mode |-> m, retries |-> retries,
                   srcExists |-> exists, srcContent |-> content,
                   destWritten |-> FALSE, destContent |-> <<>>,
                   du |-> du, free |-> free, sizeChecked |-> FALSE,
                   attempt |-> 0, max_attempts |-> 0, attempts |-> <<>>, exit_codes |-> <<>>,
                   src_proc |-> "none", dest_proc |-> "none", started |-> <<>>, touched |-> <<>>,
                   result |-> NoneResult, exc |-> "none"]

NextCp ==
    \/ KubectlCp \/ DlWait \/ DlDu \/ DlDisk \/ DlCopy \/ Up
    \/ RemoteToRemote \/ RemoteToRemoteAttempt

SpecCp == InitCp /\ [][NextCp]_vars

-----------------------------------------------------------------------------
(* strings.truncate_middle(string, max_len) on its own *)

\* the longest string and the largest max_len tried
MaxStringLen == 12
\* the longest base name of a Job tried
MaxNameLen == 70

\* the shortest base name tried with a suffix
MinNameLen == 60
\* suffixes of one to three digits
SuffixSamples == {1, 9, 10, 99, 100, 999}

\* the argument lists: short strings with every small max_len, and suffixed
\* Job names with the default max_len
TmInputs ==
    {[string |-> Repeat(<<"x">>, n), max_len |-> m] : n \in 0..MaxStringLen, m \in 0..MaxStringLen}
    \cup {[string |-> WithSuffix(trunc(LongName(n)), i), max_len |-> NAME_MAX_LEN] :
             n \in MinNameLen..MaxNameLen, i \in SuffixSamples}

\* result = truncate_middle(string, max_len)
TruncateMiddle ==
    /\ tm.pc = "call"
    /\ tm' = [tm EXCEPT !.pc = "done",
                        !.result = truncate_middle(tm.string, tm.max_len, HASH_LEN, <<"-">>)]
    /\ UNCHANGED <<recVars, aw, cp, lk, restVars>>

InitTrunc ==
    /\ RecIdle /\ aw = AwIdle /\ cp = CpIdle /\ lk = LkIdle /\ RestIdle
    /\ \E in \in TmInputs :
          tm = [pc |-> "call", string |-> in.string, max_len |-> in.max_len, result |-> <<>>]

NextTrunc == TruncateMiddle

SpecTrunc == InitTrunc /\ [][NextTrunc]_vars

-----------------------------------------------------------------------------

(* locks.group_lock: callers on one node around one lock file *)

\* invocations of the decorated function on the node
NumCallers == 3

Callers == 1..NumCallers
\* an open of the path creates a file when there is none: one inode per caller at most
Inodes == 1..NumCallers
NoInode == 0
NoCaller == 0

\* open(lock_file_path, 'w'): the file the path names, created if missing
GroupLockOpen(p) ==
    /\ lk.pc[p] = "start"
    /\ LET inode == IF lk.path = NoInode THEN lk.created + 1 ELSE lk.path IN
       lk' = [lk EXCEPT !.pc[p] = "opened", !.fd[p] = inode, !.path = inode,
                        !.created = IF lk.path = NoInode THEN lk.created + 1 ELSE lk.created]
    /\ UNCHANGED <<recVars, aw, cp, tm, restVars>>

\* fcntl.flock(lock_file, LOCK_EX | LOCK_NB): the lock is on the open file, not
\* on the path; OSError when another open file holds it, and then click.Abort
GroupLockFlock(p) ==
    /\ lk.pc[p] = "opened"
    /\ lk' = IF lk.holder[lk.fd[p]] = NoCaller
             THEN [lk EXCEPT !.pc[p] = "body", !.holder[lk.fd[p]] = p]
             ELSE [lk EXCEPT !.pc[p] = "aborted", !.fd[p] = NoInode]
    /\ UNCHANGED <<recVars, aw, cp, tm, restVars>>

\* func(*args, **kwargs) ends, and the finally clause unlocks: flock(lock_file, LOCK_UN)
GroupLockUnlock(p) ==
    /\ lk.pc[p] = "body"
    /\ lk' = [lk EXCEPT !.pc[p] = "unlocked", !.holder[lk.fd[p]] = NoCaller]
    /\ UNCHANGED <<recVars, aw, cp, tm, restVars>>

\* os.remove(lock_file_path), FileNotFoundError passed over; the file is closed
GroupLockRemove(p) ==
    /\ lk.pc[p] = "unlocked"
    /\ lk' = [lk EXCEPT !.pc[p] = "done", !.fd[p] = NoInode, !.path = NoInode]
    /\ UNCHANGED <<recVars, aw, cp, tm, restVars>>

InitLock ==
    /\ RecIdle /\ aw = AwIdle /\ cp = CpIdle /\ tm = TmIdle /\ RestIdle
    /\ lk = [pc |-> [p \in Callers |-> "start"], fd |-> [p \in Callers |-> NoInode],
             path |-> NoInode, created |-> 0, holder |-> [i \in Inodes |-> NoCaller]]

NextLock ==
    \E p \in Callers :
        \/ GroupLockOpen(p) \/ GroupLockFlock(p) \/ GroupLockUnlock(p) \/ GroupLockRemove(p)

SpecLock == InitLock /\ [][NextLock]_vars

-----------------------------------------------------------------------------

(* ensure_namespace(mode, logger, namespace=...) beside an actor that never *)
(* tires: the other actor may create the namespace and delete it again any  *)
(* number of times while the call runs.                                     *)

\* the reads of one call are counted up to here
MaxReads == 3

NrRunning(pc) == nr.pc = pc
NrLive == nr.pc \in {"get", "wait", "create"}

\* namespace_exists = kubectl.run('get namespace', ...) and the branches on it
RacedGet ==
    /\ NrRunning("get")
    /\ LET resp == IF nr.readErr # "none" THEN nr.readErr
                   ELSE IF nr.ns = "Absent" THEN "NotFound" ELSE nr.ns
           counted == [nr EXCEPT !.reads = IF nr.reads < MaxReads THEN nr.reads + 1 ELSE nr.reads]
       IN  nr' = CASE resp = "Active" -> [counted EXCEPT !.pc = "returned"]
                   [] resp = "Terminating" -> [counted EXCEPT !.pc = "wait"]
                   [] resp = "NotFound" -> [counted EXCEPT !.pc = "create"]
                   [] resp = "Forbidden" ->
                        IF nr.namespace = "default-tenant" THEN [counted EXCEPT !.pc = "returned"]
                        ELSE [counted EXCEPT !.pc = "raised", !.exc = "PermissionError"]
                   [] OTHER -> [counted EXCEPT !.pc = "raised", !.exc = "RuntimeError"]
    /\ UNCHANGED <<recVars, aw, cp, tm, lk, fi, sz, tk>>

\* kubectl.stream('wait namespace', namespace, '--for=delete --timeout=600s'),
\* then return ensure_namespace(...): the call starts over at the read
RacedWait ==
    /\ NrRunning("wait")
    /\ nr' = IF nr.ns = "Absent" THEN [nr EXCEPT !.pc = "get"]
             ELSE [nr EXCEPT !.pc = "raised", !.exc = "CalledProcessError"]
    /\ UNCHANGED <<recVars, aw, cp, tm, lk, fi, sz, tk>>

\* resp = kubectl.run('create namespace', ..., check=False): on AlreadyExists
\* return ensure_namespace(...), on another failure RuntimeError
RacedCreate ==
    /\ NrRunning("create")
    /\ LET cmd == CreateNamespaceCmd(nr.mode) IN
       \E resp \in {"ok", "AlreadyExists", "error"} :
          /\ cmd # "create namespace" => resp = "ok"
          /\ resp = "ok" => (cmd # "create namespace" \/ nr.ns = "Absent")
          /\ resp = "AlreadyExists" => nr.ns # "Absent"
          /\ nr' = CASE resp = "AlreadyExists" -> [nr EXCEPT !.pc = "get"]
                     [] resp = "error" -> [nr EXCEPT !.pc = "raised", !.exc = "RuntimeError"]
                     [] OTHER -> [nr EXCEPT !.pc = "returned",
                                            !.ns = IF cmd = "create namespace" THEN "Active" ELSE nr.ns]
    /\ UNCHANGED <<recVars, aw, cp, tm, lk, fi, sz, tk>>

\* the other actor creates the namespace
ActorCreates ==
    /\ NrLive /\ nr.ns = "Absent"
    /\ nr' = [nr EXCEPT !.ns = "Active"]
    /\ UNCHANGED <<recVars, aw, cp, tm, lk, fi, sz, tk>>

\* the other actor deletes it
ActorDeletes ==
    /\ NrLive /\ nr.ns = "Active"
    /\ nr' = [nr EXCEPT !.ns = "Terminating"]
    /\ UNCHANGED <<recVars, aw, cp, tm, lk, fi, sz, tk>>

\* the deletion completes
ActorDeletionCompletes ==
    /\ NrLive /\ nr.ns = "Terminating"
    /\ nr' = [nr EXCEPT !.ns = "Absent"]
    /\ UNCHANGED <<recVars, aw, cp, tm, lk, fi, sz, tk>>

InitRaced ==
    /\ RecIdle /\ aw = AwIdle /\ cp = CpIdle /\ tm = TmIdle /\ lk = LkIdle
    /\ fi = FiIdle /\ sz = SzIdle /\ tk = TkIdle
    /\ \E m \in Modes, n \in {"demo", "default-tenant"},
          e \in {"none", "Forbidden", "Other"}, s \in {"Absent", "Active", "Terminating"} :
          /\ n = "default-tenant" => e = "Forbidden"
          /\ nr = [pc |-> "get", mode |-> m, namespace |-> n, readErr |-> e, ns |-> s,
                   exc |-> "none", reads |-> 0]

RacedProgram == RacedGet \/ RacedWait \/ RacedCreate

NextRaced ==
    \/ RacedGet \/ RacedWait \/ RacedCreate
    \/ ActorCreates \/ ActorDeletes \/ ActorDeletionCompletes

SpecRaced == InitRaced /\ [][NextRaced]_vars

\* the interpreter keeps running the call, and each kubectl command comes back
SpecRacedFair == SpecRaced /\ WF_vars(RacedProgram)

-----------------------------------------------------------------------------

(* fetch_from_image(namespace, image, source, target, mode): a temporary pod *)
(* is run from the image and a file is copied out of it with kubectl_cp      *)

\* retries: Optional[int] = 3, the default of kubectl_cp
CP_RETRIES_DEFAULT == 3

FiRunning(pc) == fi.pc = pc
FiReturn(f) == [f EXCEPT !.pc = "returned"]
FiRaise(f, e) == [f EXCEPT !.pc = "raised", !.exc = e]
\* a kubectl command that ran
FiStarted(f, cmd) == [f EXCEPT !.started = Append(f.started, cmd)]

\* Executable.stream(..., mode=mode): nothing runs in dry-run
StreamRuns(m) == m # "dry-run"

\* ensure_namespace(mode, logger, namespace=namespace) returns or raises
FetchEnsureNamespace ==
    /\ FiRunning("ns")
    /\ \E raises \in BOOLEAN :
          fi' = IF raises THEN FiRaise(fi, "RuntimeError") ELSE [fi EXCEPT !.pc = "delete_stale"]
    /\ UNCHANGED <<recVars, aw, cp, tm, lk, nr, sz, tk>>

\* kubectl.stream('delete pod --ignore-not-found --wait', pod_name, mode=mode)
FetchDeleteStale ==
    /\ FiRunning("delete_stale")
    /\ \E returncode \in {0, 1} :
          fi' = IF ~StreamRuns(fi.mode) THEN [fi EXCEPT !.pc = "run"]
                ELSE IF returncode # 0
                THEN FiRaise(FiStarted(fi, "delete pod --wait"), "CalledProcessError")
                ELSE [FiStarted(fi, "delete pod --wait") EXCEPT !.pc = "run", !.pod = "none"]
    /\ UNCHANGED <<recVars, aw, cp, tm, lk, nr, sz, tk>>

\* kubectl.stream('run --image-pull-policy=Always --image', image, pod_name, ...),
\* and the return of dry-run
FetchRun ==
    /\ FiRunning("run")
    /\ \E returncode \in {0, 1} :
          fi' = IF ~StreamRuns(fi.mode) THEN FiReturn(fi)
                ELSE IF returncode # 0 THEN FiRaise(FiStarted(fi, "run"), "CalledProcessError")
                ELSE [FiStarted(fi, "run") EXCEPT !.pc = "get", !.pod = "temp", !.created = TRUE]
    /\ UNCHANGED <<recVars, aw, cp, tm, lk, nr, sz, tk>>

\* kubectl.stream('get pods', pod_name, '--output', jsonpath)
FetchGetPods ==
    /\ FiRunning("get")
    /\ \E returncode \in {0, 1} :
          fi' = IF returncode # 0 THEN FiRaise(FiStarted(fi, "get pods"), "CalledProcessError")
                ELSE [FiStarted(fi, "get pods") EXCEPT !.pc = "copy"]
    /\ UNCHANGED <<recVars, aw, cp, tm, lk, nr, sz, tk>>

\* kubectl_cp(f'--{namespace=} {pod_name}:{source}', target, mode=mode) is called
FetchCopyCall ==
    /\ FiRunning("copy") /\ cp = CpIdle
    /\ fi' = [fi EXCEPT !.pc = "copying"]
    /\ \E content \in Contents, du \in DuOutputs, free \in FreeBytes :
          cp' = [pc |-> "start", src |-> RemotePath, dest |-> LocalPath, mode |-> fi.mode,
                 retries |-> CP_RETRIES_DEFAULT, srcExists |-> TRUE, srcContent |-> content,
                 destWritten |-> FALSE, destContent |-> <<>>,
                 du |-> du, free |-> free, sizeChecked |-> FALSE,
                 attempt |-> 0, max_attempts |-> 0, attempts |-> <<>>, exit_codes |-> <<>>,
                 src_proc |-> "none", dest_proc |-> "none", started |-> <<>>, touched |-> <<>>,
                 result |-> NoneResult, exc |-> "none"]
    /\ UNCHANGED <<recVars, aw, tm, lk, nr, sz, tk>>

\* kubectl_cp came back: its exception goes up through fetch_from_image
FetchCopyDone ==
    /\ FiRunning("copying") /\ cp.pc \in {"returned", "raised"}
    /\ fi' = IF cp.pc = "raised" THEN FiRaise(fi, cp.exc) ELSE [fi EXCEPT !.pc = "delete"]
    /\ UNCHANGED <<recVars, aw, cp, tm, lk, nr, sz, tk>>

\* kubectl.stream('delete pod --ignore-not-found --wait=false', pod_name, mode=mode)
FetchDeletePod ==
    /\ FiRunning("delete")
    /\ \E returncode \in {0, 1} :
          fi' = IF returncode # 0
                THEN FiRaise(FiStarted(fi, "delete pod --wait=false"), "CalledProcessError")
                ELSE FiReturn([FiStarted(fi, "delete pod --wait=false") EXCEPT !.pod = "none"])
    /\ UNCHANGED <<recVars, aw, cp, tm, lk, nr, sz, tk>>

InitFetch ==
    /\ RecIdle /\ aw = AwIdle /\ cp = CpIdle /\ tm = TmIdle /\ lk = LkIdle
    /\ nr = NrIdle /\ sz = SzIdle /\ tk = TkIdle
    /\ \E m \in Modes, p \in {"none", "stale"} :
          fi = [pc |-> "ns", mode |-> m, pod |-> p, created |-> FALSE,
                started |-> <<>>, exc |-> "none"]

NextFetch ==
    \/ FetchEnsureNamespace \/ FetchDeleteStale \/ FetchRun \/ FetchGetPods
    \/ FetchCopyCall \/ FetchCopyDone \/ FetchDeletePod
    \/ KubectlCp \/ DlWait \/ DlDu \/ DlDisk \/ DlCopy

SpecFetch == InitFetch /\ [][NextFetch]_vars

-----------------------------------------------------------------------------

(* scale_resources_to_zero(resources, prefix, namespace, mode, logger): the  *)
(* selected deployments and statefulsets are scaled to 0 replicas, then the  *)
(* pods of every scaled selector are polled until none is listed             *)

\* the most selectors given in the resources mapping
MaxSelectors == 2
\* the clock is followed up to this reading, in seconds
MaxClock == 3630

\* if start_time - monotonic() > 3600
TERMINATION_TIMEOUT == 3600
\* time.sleep(10)
POLL_SLEEP == 10

SzRunning(pc) == sz.pc = pc
SzLive == sz.pc \in {"start", "scale", "list", "loop"}

\* time.monotonic() after d more seconds
Later(now, d) == IF now + d > MaxClock THEN MaxClock ELSE now + d

\* the test that guards the raise of TimeoutError
TimedOut(start_time, now) == start_time - now > TERMINATION_TIMEOUT

\* the switch <prefix>_SERVICE_REPLICAS_SCALE_TO_ZERO, and confirm.default()
ScaleBegin ==
    /\ SzRunning("start")
    /\ sz' = IF ~sz.enabled THEN [sz EXCEPT !.pc = "returned"] ELSE [sz EXCEPT !.pc = "scale"]
    /\ UNCHANGED <<recVars, aw, cp, tm, lk, nr, fi, tk>>

\* the two loops over the selectors: a selector with a workload is scaled and
\* kept in labels_to_await; then the return of dry-run, and start_time
ScaleSelectors ==
    /\ SzRunning("scale")
    /\ \E found \in 0..sz.selectors, returncode \in {0, 1} :
          sz' = IF found > 0 /\ returncode # 0
                THEN [sz EXCEPT !.pc = "raised", !.exc = "CalledProcessError"]
                ELSE IF sz.mode = "dry-run"
                THEN [sz EXCEPT !.pc = "returned", !.labels_to_await = found]
                ELSE [sz EXCEPT !.pc = "list", !.labels_to_await = found, !.i = 1,
                                !.start_time = sz.now]
    /\ UNCHANGED <<recVars, aw, cp, tm, lk, nr, fi, tk>>

\* for selector in labels_to_await: pods = kubectl.run(get_pods_cmd).stdout.strip()
ScaleList ==
    /\ SzRunning("list")
    /\ \E returncode \in {0, 1} :
          sz' = IF sz.i > sz.labels_to_await THEN [sz EXCEPT !.pc = "returned"]
                ELSE IF returncode # 0 THEN [sz EXCEPT !.pc = "raised", !.exc = "CalledProcessError"]
                ELSE IF sz.pods[sz.i] THEN [sz EXCEPT !.pc = "loop"]
                ELSE [sz EXCEPT !.i = sz.i + 1]
    /\ UNCHANGED <<recVars, aw, cp, tm, lk, nr, fi, tk>>

\* one turn of `while pods:`: the timeout test, the sleep, the next listing
\* (polls is the parity of the listings made in the loop)
ScaleLoop ==
    /\ SzRunning("loop")
    /\ \E returncode \in {0, 1} :
          LET slept == [sz EXCEPT !.now = Later(sz.now, POLL_SLEEP), !.polls = 1 - sz.polls] IN
          sz' = IF TimedOut(sz.start_time, sz.now)
                THEN [sz EXCEPT !.pc = "raised", !.exc = "TimeoutError"]
                ELSE IF returncode # 0
                THEN [slept EXCEPT !.pc = "raised", !.exc = "CalledProcessError"]
                ELSE IF ~sz.pods[sz.i] THEN [slept EXCEPT !.pc = "list", !.i = sz.i + 1]
                ELSE slept
    /\ UNCHANGED <<recVars, aw, cp, tm, lk, nr, fi, tk>>

\* the pods of a selector are gone
EnvPodsTerminate ==
    /\ SzLive
    /\ \E s \in 1..sz.selectors :
          /\ sz.pods[s]
          /\ sz' = [sz EXCEPT !.pods[s] = FALSE]
    /\ UNCHANGED <<recVars, aw, cp, tm, lk, nr, fi, tk>>

InitScale ==
    /\ RecIdle /\ aw = AwIdle /\ cp = CpIdle /\ tm = TmIdle /\ lk = LkIdle
    /\ nr = NrIdle /\ fi = FiIdle /\ tk = TkIdle
    /\ \E m \in Modes, on \in BOOLEAN, n \in 0..MaxSelectors :
       \E listed \in [1..n -> BOOLEAN] :
          sz = [pc |-> "start", mode |-> m, enabled |-> on, selectors |-> n, pods |-> listed,
                labels_to_await |-> 0, i |-> 0, start_time |-> 0, now |-> 0, polls |-> 0,
                exc |-> "none"]

ScaleProgram == ScaleBegin \/ ScaleSelectors \/ ScaleList \/ ScaleLoop

NextScale ==
    \/ ScaleBegin \/ ScaleSelectors \/ ScaleList \/ ScaleLoop
    \/ EnvPodsTerminate

SpecScale == InitScale /\ [][NextScale]_vars

\* the interpreter keeps running the call; the pods owe it nothing
SpecScaleFair == SpecScale /\ WF_vars(ScaleProgram)

-----------------------------------------------------------------------------

(* Task.monitor: the wrapper around the phases of one task, and the Tracker *)
(* entries of that task (a dict: phases in the order of their first upsert)  *)

\* the most phase calls of one task that are followed
MaxCalls == 3

\* ('require', 'setup', 'execute', 'validate')
Phases == {"require", "setup", "execute", "validate"}
FAILURE_STATUSES == {"failed", "timeout", "unknown", "aborted"}
SUCCESS_STATUSES == {"succeeded", "completed", "skipped"}

\* Tracker.upsert(task, phase, status): cls._tasks[task][phase] = {...}; a new
\* key goes to the end of the dict, an old key keeps its place
upsert(entries, phase, status) ==
    IF \E k \in 1..Len(entries) : entries[k].phase = phase
    THEN [k \in 1..Len(entries) |->
             IF entries[k].phase = phase THEN [phase |-> phase, status |-> status]
             ELSE entries[k]]
    ELSE Append(entries, [phase |-> phase, status |-> status])

\* Tracker.task_summary(task)['status']: next((x['status'] for x in values
\* if x.get('status') not in SUCCESS_STATUSES), 'succeeded'); an unknown task
\* has no summary, and is_task_failed reads 'unknown' for it
task_summary_status(entries) ==
    LET open == {k \in 1..Len(entries) : entries[k].status \notin SUCCESS_STATUSES} IN
    IF entries = <<>> THEN "unknown"
    ELSE IF open = {} THEN "succeeded"
    ELSE entries[CHOOSE k \in open : \A j \in open : k <= j].status

\* Tracker.is_task_failed(task)
is_task_failed(entries) == task_summary_status(entries) \in FAILURE_STATUSES

\* how the body of a phase ends, and the status the wrapper gives it
BodyOutcomes == {"returns", "TimeoutError", "CalledProcessError", "KeyboardInterrupt", "Abort"}
StatusAfter(ending) == CASE ending = "returns" -> "succeeded"
                          [] ending = "TimeoutError" -> "timeout"
                          [] OTHER -> "failed"

TkRunning(pc) == tk.pc = pc

\* the wrapper is entered: self.set_phase(func.__name__), self.post_status('started')
MonitorEnter ==
    /\ TkRunning("between") /\ tk.calls < MaxCalls
    /\ \E p \in Phases, raise_on_fail \in BOOLEAN :
          tk' = [tk EXCEPT !.pc = "check", !.phase = p, !.raise_on_fail = raise_on_fail,
                           !.calls = tk.calls + 1, !.status = "started",
                           !.tracker = upsert(tk.tracker, p, "started"),
                           !.failedBefore = \E k \in 1..Len(tk.tracker) :
                                               /\ tk.tracker[k].phase # p
                                               /\ tk.tracker[k].status \in FAILURE_STATUSES,
                           !.ranBody = FALSE, !.exc = "none"]
    /\ UNCHANGED <<recVars, aw, cp, tm, lk, nr, fi, sz>>

\* if Tracker.is_task_failed(self.name): status = 'aborted'
MonitorCheck ==
    /\ TkRunning("check")
    /\ tk' = IF is_task_failed(tk.tracker) THEN [tk EXCEPT !.pc = "post", !.status = "aborted"]
             ELSE [tk EXCEPT !.pc = "body"]
    /\ UNCHANGED <<recVars, aw, cp, tm, lk, nr, fi, sz>>

\* result = func(self, *args, **kwargs) and the except clauses
MonitorBody ==
    /\ TkRunning("body")
    /\ \E ending \in BodyOutcomes :
          tk' = CASE ending = "KeyboardInterrupt" ->
                       [tk EXCEPT !.pc = "exited", !.ranBody = TRUE, !.exc = "SystemExit"]
                  [] ending = "Abort" ->
                       [tk EXCEPT !.pc = "between", !.ranBody = TRUE, !.exc = "Abort"]
                  [] OTHER ->
                       [tk EXCEPT !.pc = "post", !.ranBody = TRUE, !.status = StatusAfter(ending)]
    /\ UNCHANGED <<recVars, aw, cp, tm, lk, nr, fi, sz>>

\* self.post_status(status, description=...), then click.Abort when raise_on_fail
\* is set and the status is no success
MonitorPost ==
    /\ TkRunning("post")
    /\ tk' = [tk EXCEPT !.pc = "between",
                        !.tracker = upsert(tk.tracker, tk.phase, tk.status),
                        !.exc = IF tk.raise_on_fail /\ tk.status \notin SUCCESS_STATUSES
                                THEN "Abort" ELSE "none"]
    /\ UNCHANGED <<recVars, aw, cp, tm, lk, nr, fi, sz>>

InitMonitor ==
    /\ RecIdle /\ aw = AwIdle /\ cp = CpIdle /\ tm = TmIdle /\ lk = LkIdle
    /\ nr = NrIdle /\ fi = FiIdle /\ sz = SzIdle
    /\ tk = [pc |-> "between", phase |-> "created", status |-> "succeeded", raise_on_fail |-> FALSE,
             calls |-> 0, tracker |-> <<>>, failedBefore |-> FALSE, ranBody |-> FALSE,
             exc |-> "none"]

NextMonitor == MonitorEnter \/ MonitorCheck \/ MonitorBody \/ MonitorPost

SpecMonitor == InitMonitor /\ [][NextMonitor]_vars

-----------------------------------------------------------------------------

(* Properties of the reconcilers and the launcher, checked under SpecRec *)

IsCall(k, cmd, resp) == calls[k].cmd = cmd /\ calls[k].resp = resp
NoMutatingCall(log) == \A k \in 1..Len(log) : log[k].cmd \notin Mutating

\* C1: in dry-run mode ensure_namespace, ensure_pvc and ensure_daemonset issue
\* no mutating cluster call, whatever state of the cluster they observe: the
\* only create they issue carries --dry-run=client, and the cluster is as found.
C1_DryRunReconcilersMutateNothing ==
    (op \in Reconcilers /\ spec.MODE = "dry-run") => NoMutatingCall(calls)

\* a dry-run ensure_daemonset found neither namespace nor DaemonSet and returned
C1_Witness ==
    /\ op = "ensure_daemonset" /\ spec.MODE = "dry-run" /\ outcome = "returned"
    /\ \E k \in 1..Len(calls) : IsCall(k, "create namespace --dry-run=client", "ok")
    /\ \E k \in 1..Len(calls) : IsCall(k, "get daemonset", "NotFound")

\* C2: create_oneliner_job called with mode='dry-run' issues no mutating
\* cluster call and returns the truncated base job name, whatever spec['MODE'] is.
C2_LauncherDryRunMutatesNothing ==
    (op = "create_oneliner_job" /\ mode = "dry-run") =>
        /\ NoMutatingCall(calls)
        /\ outcome = "returned" => retval = trunc(spec.JOB_NAME)

\* the listing read by the call that returned
ListingRead == LET k == CHOOSE k \in 1..Len(calls) : calls[k].cmd = "get jobs" IN calls[k].resp
Candidate(k) == trunc(WithSuffix(trunc(spec.JOB_NAME), k))

\* C5: outside dry-run the name create_oneliner_job returns is not in the job
\* listing it read; when the base name is in the listing, the name returned is
\* the candidate base-<k> for the smallest k >= 1 whose candidate is not listed.
C5_ReturnedNameIsFresh ==
    (op = "create_oneliner_job" /\ mode # "dry-run" /\ outcome = "returned") =>
        /\ retval \notin ListingRead
        /\ trunc(spec.JOB_NAME) \notin ListingRead => retval = trunc(spec.JOB_NAME)
        /\ trunc(spec.JOB_NAME) \in ListingRead =>
              \E k \in 1..(SUFFIX_END - 1) :
                 /\ retval = Candidate(k)
                 /\ \A j \in 1..(k - 1) : Candidate(j) \in ListingRead

\* a name over the limit was taken together with its first candidate: -2 is returned
C5_Witness ==
    /\ op = "create_oneliner_job" /\ mode # "dry-run" /\ outcome = "returned"
    /\ Len(spec.JOB_NAME) > NAME_MAX_LEN
    /\ Candidate(1) \in ListingRead
    /\ retval = Candidate(2)

\* C6: when a reconciler has returned and nothing else has touched the cluster,
\* the same call made again returns the same result, issues no create on the
\* cluster and raises no error.
C6_SecondCallIsNoOp ==
    (callIdx = 2 /\ first.outcome = "returned") =>
        /\ NoMutatingCall(calls)
        /\ outcome # "raised"
        /\ outcome = "returned" => retval = first.retval

\* ensure_pvc created the claim in its first call and has returned from the second
C6_Witness ==
    /\ callIdx = 2 /\ op = "ensure_pvc" /\ outcome = "returned" /\ first.outcome = "returned"
    /\ \E k \in 1..Len(first.calls) :
          first.calls[k].cmd = "create persistentvolumeclaim" /\ first.calls[k].resp = "ok"
    /\ \E k \in 1..Len(first.calls) :
          first.calls[k].cmd = "create namespace" /\ first.calls[k].resp = "ok"

\* C7: an AlreadyExists answer to the namespace create raises nothing: the next
\* thing ensure_namespace does is read the namespace again, and when that read
\* shows it Active the existing namespace's name is returned.
C7_AlreadyExistsIsReread ==
    \A k \in 1..Len(calls) :
       IsCall(k, "create namespace", "AlreadyExists") =>
          /\ k = Len(calls) => Running("ensure_namespace", "get")
          /\ k < Len(calls) => calls[k + 1].cmd = "get namespace"
          /\ (op = "ensure_namespace" /\ k + 1 = Len(calls) /\ calls[k + 1].resp = "Active") =>
                (outcome = "returned" /\ retval = spec.NAMESPACE)

\* another creator won the race, and the call returned the name
C7_Witness ==
    /\ op = "ensure_namespace" /\ outcome = "returned" /\ retval = spec.NAMESPACE
    /\ Len(calls) >= 3
    /\ IsCall(Len(calls) - 2, "get namespace", "NotFound")
    /\ IsCall(Len(calls) - 1, "create namespace", "AlreadyExists")
    /\ IsCall(Len(calls), "get namespace", "Active")

IsCreateNamespace(c) == c.cmd \in {"create namespace", "create namespace --dry-run=client"}

-----------------------------------------------------------------------------
(* Properties of the completion poller, checked under SpecAwait and SpecAwaitFair *)

Finished == aw.pc \in {"returned", "raised"}

\* C3: await_k8s_job_completion always terminates: with the poller kept running,
\* it returns or raises in the end, also for a Job that stays visible and never
\* reaches the complete or the failed condition.
C3_AwaitTerminates == <>Finished

\* a wait came back with exit code 0 and the poller went on to judge the Job
Resolved == Finished /\ aw.nwaits > 0 /\ aw.response.returncode = 0

\* C4: once a wait has resolved, the poller returns True exactly when the status
\* read afterwards has a non-zero succeeded count, whatever its failed count;
\* otherwise it raises RuntimeError, and the error about a status that was read
\* embeds the name of the Job and that status.
C4_VerdictFollowsSucceeded ==
    Resolved =>
        /\ aw.read => aw.terminal_status = aw.job.status
        /\ (aw.pc = "returned") <=> (aw.read /\ aw.terminal_status.succeeded # 0)
        /\ aw.pc = "returned" => aw.result = "True"
        /\ aw.pc = "raised" => aw.exc = "RuntimeError"
        /\ (aw.pc = "raised" /\ aw.read) =>
              /\ aw.msg.name = aw.name
              /\ aw.msg.terminal_status = aw.terminal_status

\* a pod failed, a wait timed out, and the Job completed after all
C4_Witness ==
    /\ Resolved /\ aw.pc = "returned" /\ aw.nwaits >= 2
    /\ aw.terminal_status.failed # 0 /\ aw.terminal_status.succeeded # 0

-----------------------------------------------------------------------------
(* Properties of kubectl_cp, checked under SpecCp *)

CpFinished == cp.pc \in {"returned", "raised"}
IsRemoteToRemote == HasColon(cp.src) /\ HasColon(cp.dest)
AllFailed == \A i \in 1..Len(cp.attempts) : cp.attempts[i] # <<0, 0>>

\* C9: a remote-to-remote transfer outside dry-run makes at most max(1, retries)
\* attempts; it stops at the first attempt whose two exit codes are 0 and
\* returns 0; when every attempt failed it returns the list of the
\* (src exit code, dest exit code) pairs, one per failed attempt, in order.
C9_RemoteToRemoteOutcome ==
    (CpFinished /\ IsRemoteToRemote /\ Len(cp.attempts) > 0) =>
        /\ Len(cp.attempts) <= MaxAttempts(cp.retries)
        /\ \A i \in 1..(Len(cp.attempts) - 1) : cp.attempts[i] # <<0, 0>>
        /\ ~AllFailed => cp.pc = "returned" /\ cp.result = IntResult(0)
        /\ AllFailed => /\ cp.pc = "returned"
                        /\ Len(cp.attempts) = MaxAttempts(cp.retries)
                        /\ cp.result = ListResult(cp.attempts)

IsUploadOrDownload == HasColon(cp.src) # HasColon(cp.dest)

\* C10: outside dry-run, an upload or a download returns 0 only if the
\* destination then holds content whose checksum equals that of the source.
C10_SuccessMeansEqualChecksums ==
    (cp.pc = "returned" /\ IsUploadOrDownload /\ cp.mode # "dry-run" /\ cp.result = IntResult(0)) =>
        /\ cp.destWritten
        /\ md5sum(cp.destContent) = md5sum(cp.srcContent)

IsDownload == HasColon(cp.src) /\ ~HasColon(cp.dest)
CopyStarted == \E i \in 1..Len(cp.started) : cp.started[i] = "kubectl cp"

\* C11: in a download, kubectl cp is started only after the size check has
\* passed, with the size reported by du within the free space; a reported size
\* above the free space ends the call with OSError and no kubectl cp started.
C11_CopyOnlyAfterSizeCheck ==
    IsDownload =>
        /\ CopyStarted => cp.sizeChecked /\ cp.du.value * UNIT_FACTOR_K <= cp.free
        /\ (cp.exc = "OSError") => ~CopyStarted /\ ~cp.sizeChecked
        /\ (cp.pc \in {"dl_cp", "returned"} /\ cp.du.unit # "") =>
              cp.du.value * UNIT_FACTOR_K <= cp.free

\* a download refused for a size above the free space
C11_Witness ==
    /\ IsDownload /\ cp.pc = "raised" /\ cp.exc = "OSError"
    /\ cp.du.value * UNIT_FACTOR_K > cp.free
    /\ cp.started = <<"kubectl wait", "kubectl exec du">>

BothLocal == cp.src = LocalPath /\ cp.dest = LocalPath

\* C12: with a source and a destination that are both local paths, kubectl_cp
\* raises ValueError whatever the mode and the retries, with no child process
\* started and the local filesystem not consulted.
C12_BothLocalIsRefused ==
    (BothLocal /\ cp.pc # "start") =>
        /\ cp.pc = "raised" /\ cp.exc = "ValueError"
        /\ cp.started = <<>> /\ cp.touched = <<>>
        /\ ~cp.destWritten

\* the refusal in dry-run, with retries left unset
C12_Witness ==
    /\ BothLocal /\ cp.mode = "dry-run" /\ cp.retries = 0
    /\ cp.pc = "raised" /\ cp.exc = "ValueError"

\* C19: in dry-run mode kubectl_cp starts no child process at all, for an
\* upload, a download and a remote-to-remote transfer alike, and writes nothing.
C19_DryRunStartsNothing ==
    cp.mode = "dry-run" => (cp.started = <<>> /\ ~cp.destWritten)

-----------------------------------------------------------------------------
(* Further properties of the reconcilers and the launcher, checked under SpecRec *)

PvcWaitTimedOut(c) == c = Call("wait persistentvolumeclaim", "timeout")
TimedOutWaits == Cardinality({k \in 1..Len(calls) : PvcWaitTimedOut(calls[k])})

\* C13: a wait of ensure_pvc that fails is followed by the wait for the next
\* phase of the doubled list, and the call raises only after all 2*n waits
\* have failed, with RuntimeError.
C13_PvcWaitsEveryPhaseTwice ==
    (op = "ensure_pvc" /\ outcome = "raised" /\ TimedOutWaits > 0) =>
        /\ exc = "RuntimeError"
        /\ TimedOutWaits = 2 * Len(pvc_desired_states)

NamespaceRead == [cmd |-> "get namespace", resp |-> "Forbidden"]

\* C17: when the read of the namespace is Forbidden, ensure_namespace returns
\* the name for 'default-tenant' and raises PermissionError for any other
\* namespace; the read is its only call, no create is attempted.
C17_ForbiddenReadToleratedForDefaultTenant ==
    (op = "ensure_namespace" /\ nsReadErr = "Forbidden" /\ outcome \in {"returned", "raised"}) =>
        /\ calls = <<NamespaceRead>>
        /\ spec.NAMESPACE = "default-tenant" =>
              outcome = "returned" /\ retval = "default-tenant"
        /\ spec.NAMESPACE # "default-tenant" =>
              outcome = "raised" /\ exc = "PermissionError"

\* the reserved namespace, unreadable and absent, is returned as it is
C17_Witness ==
    /\ op = "ensure_namespace" /\ nsReadErr = "Forbidden" /\ callIdx = 1
    /\ spec.NAMESPACE = "default-tenant" /\ ns = "Absent"
    /\ outcome = "returned" /\ retval = "default-tenant"

\* C14: outside dry-run, once a status read by ensure_daemonset shows
\* desiredNumberScheduled = numberReady the call returns without error, and
\* RuntimeError is raised only on a last status that is still unequal.
C14_DaemonsetReturnsWhenConverged ==
    [][(Running("ensure_daemonset", "loop") /\ Converged(Top.ds_status) /\ stack' # stack)
          => (outcome' = "returned" /\ exc' = "none")]_vars

\* C15: when create_oneliner_job has written the Job manifest file and has
\* exited, by returning or by raising, the file left on disk is redacted.
C15_ManifestLeftRedacted ==
    (op = "create_oneliner_job" /\ outcome \in {"returned", "raised"} /\ manifest # "none") =>
        manifest = "redacted"

-----------------------------------------------------------------------------
(* Further properties of the completion poller, checked under SpecAwait *)

\* the last wait failed, and not by timing out
WaitFailedFatally ==
    aw.nwaits > 0 /\ aw.response.returncode # 0 /\ ~IsWaitTimeout(aw.response)

\* C16: a wait that fails otherwise than by a timeout ends the poller with
\* RuntimeError, no further wait being submitted, and the namespace events
\* have been printed before the raise.
C16_FatalWaitPrintsEvents ==
    (Finished /\ WaitFailedFatally) =>
        /\ aw.pc = "raised" /\ aw.exc = "RuntimeError"
        /\ aw.events

-----------------------------------------------------------------------------
(* Properties of truncate_middle, checked under SpecTrunc *)

\* C18: truncate_middle(s, max_len) is never longer than max_len, for every
\* string and every max_len; so a Job name, with any suffix 1..999 appended
\* and truncated again, is never longer than the limit of 63 characters.
C18_TruncatedToMaxLen ==
    tm.pc = "done" => Len(tm.result) <= tm.max_len

\* the part of C18 about Job names: with the default max_len the result fits
JobNameFits ==
    (tm.pc = "done" /\ tm.max_len = NAME_MAX_LEN) => Len(tm.result) <= NAME_MAX_LEN

-----------------------------------------------------------------------------
(* Properties of group_lock, checked under SpecLock *)

InBody == {p \in Callers : lk.pc[p] = "body"}

\* C20: at no time do two invocations guarded by the same lock file execute
\* the body of the decorated function together, whatever the interleaving of
\* one caller's unlock and remove with the other callers' open and flock.
C20_MutualExclusion == Cardinality(InBody) <= 1

\* a step of the poller itself: the Job is as it was
PollerStep == aw' # aw /\ aw'.job = aw.job
OtherCondition(c) == IF c = "condition=complete" THEN "condition=failed"
                     ELSE "condition=complete"

\* C21: the waits alternate condition=complete, condition=failed, ...,
\* starting with complete; after a wait that timed out the poller does not
\* raise, and its next step submits one wait, on the other condition.
C21_WaitsAlternate ==
    [][/\ (PollerStep /\ aw'.cycle # aw.cycle) =>
             aw'.lastCondition = OtherCondition(aw.lastCondition)
       /\ (PollerStep /\ aw.pc = "loop" /\ aw.response.returncode # 0
                      /\ IsWaitTimeout(aw.response)) =>
             /\ aw'.pc = "loop" /\ aw'.exc = "none"
             /\ aw'.cycle # aw.cycle
             /\ aw'.lastCondition = OtherCondition(aw.lastCondition)]_vars

\* two waits timed out and the third, on complete again, is under way
C21_Witness ==
    /\ aw.pc = "loop" /\ aw.nwaits = 3
    /\ aw.lastCondition = "condition=complete"
    /\ aw.response.returncode # 0 /\ IsWaitTimeout(aw.response)


\* the delays of the backoff, in seconds
BackoffDelays == <<1, 2, 4, 8, 16, 32>>

\* C22: while the status read answers NotFound the poller reads again at
\* most RETRIES_DEFAULT times, after sleeping 1, 2, 4, 8, 16, 32 seconds; it
\* goes on to the waits as soon as a read is not NotFound, a read that is not
\* NotFound is never followed by another sleep, and a Job that never became
\* visible ends in a raised error after the whole budget.
C22_NotFoundBackoff ==
    /\ [](/\ Len(aw.slept) <= RETRIES_DEFAULT
          /\ \A i \in 1..Len(aw.slept) : aw.slept[i] = BackoffDelays[i]
          /\ (aw.pc = "wait" /\ Len(aw.slept) < RETRIES_DEFAULT) =>
                ~(aw.response.returncode # 0 /\ IsNotFound(aw.response))
          /\ (Finished /\ aw.mode # "dry-run" /\ aw.job.state = "Absent") =>
                aw.pc = "raised" /\ Len(aw.slept) = RETRIES_DEFAULT)
    /\ [][(aw.pc = "backoff" /\ ~(aw.response.returncode # 0 /\ IsNotFound(aw.response))) =>
             aw'.slept = aw.slept]_vars

\* the Job never showed up: six sleeps, then the raised error
C22_Witness ==
    /\ aw.pc = "raised" /\ aw.exc = "RuntimeError"
    /\ aw.slept = BackoffDelays /\ aw.job.state = "Absent"


-----------------------------------------------------------------------------
(* Properties of ensure_pvc and of the launcher's name search, checked under SpecRec *)

IsPvcCreate(c) == c.cmd = "create persistentvolumeclaim"
PvcCreates == {k \in 1..Len(calls) : IsPvcCreate(calls[k])}
PvcFrames == {k \in 1..Len(stack) : stack[k].fn = "ensure_pvc"}

\* C23: one call of ensure_pvc sends at most two creates of the claim, in at
\* most two nested activations: only a create answered 'terminated' is
\* followed by another, the first 'terminated' starts the one retry, and a
\* 'terminated' answer inside the retry starts nothing further.
C23_PvcCreatedAtMostTwice ==
    op = "ensure_pvc" =>
        /\ Cardinality(PvcCreates) <= 2
        /\ Cardinality(PvcFrames) <= 2
        /\ \A k \in PvcCreates :
              /\ calls[k].resp # "terminated" => \A j \in PvcCreates : j <= k
              /\ (calls[k].resp = "terminated" /\ k = Len(calls) /\ outcome = "running") =>
                    Cardinality(PvcFrames) = 2

\* both the first create and the create of the retry were answered 'terminated'
C23_Witness ==
    /\ op = "ensure_pvc"
    /\ Cardinality({k \in PvcCreates : calls[k].resp = "terminated"}) = 2
    /\ outcome \in {"returned", "raised"}


PvcCreateFailed(k) ==
    \/ calls[k].resp \notin {"ok", "terminated"}
    \/ calls[k].resp # "ok" /\ \E j \in PvcCreates : j < k
PhaseCommands == {"get persistentvolumeclaim phase", "wait persistentvolumeclaim"}

\* C24: a create of the claim that fails with another error than 'terminated',
\* or that fails in the retry, ends ensure_pvc with that error: no read of the
\* phase and no wait follows it.
C24_PvcCreateFailureAborts ==
    op = "ensure_pvc" =>
        \A k \in PvcCreates :
           PvcCreateFailed(k) =>
              /\ \A j \in (k + 1)..Len(calls) : calls[j].cmd \notin PhaseCommands
              /\ k = Len(calls) => (outcome = "raised" /\ exc = "CalledProcessError")


JobsListed == \E k \in 1..Len(calls) : calls[k].cmd = "get jobs"
AllCandidatesListed ==
    /\ trunc(spec.JOB_NAME) \in ListingRead
    /\ \A k \in 1..(SUFFIX_END - 1) : Candidate(k) \in ListingRead

\* C25: when the listing holds the base name and every candidate -1 .. -999,
\* create_oneliner_job raises and sends no create of a Job; the candidate
\* -1000, which is free, is never looked at.
C25_ExhaustedSearchRaises ==
    (op = "create_oneliner_job" /\ mode # "dry-run" /\ JobsListed /\ AllCandidatesListed) =>
        /\ outcome = "raised"
        /\ \A k \in 1..Len(calls) : calls[k].cmd # "create job"
        /\ Candidate(SUFFIX_END) \notin ListingRead

\* the search ran through all 999 candidates and the launcher raised
C25_Witness ==
    /\ op = "create_oneliner_job" /\ mode # "dry-run" /\ JobsListed /\ AllCandidatesListed
    /\ outcome = "raised" /\ exc = "StopIteration"
    /\ calls[Len(calls)].cmd = "get jobs"


-----------------------------------------------------------------------------
(* Properties of ensure_namespace beside an actor that never tires *)

-----------------------------------------------------------------------------
(* Further properties of kubectl_cp, checked under SpecCp *)

AttemptEnded == cp.attempt > 0 /\ cp.pc \in {"r2r_attempt", "returned", "raised"}

\* C27: when an attempt of a remote-to-remote transfer has ended, by success,
\* by a non-zero exit or by an exception while spawning or waiting, neither
\* the source child nor the destination child is running.
C27_NoChildLeftRunning ==
    (IsRemoteToRemote /\ AttemptEnded) =>
        cp.src_proc # "running" /\ cp.dest_proc # "running"

\* the wait was interrupted with both children running: both were killed
C27_Witness ==
    /\ IsRemoteToRemote /\ cp.pc = "raised" /\ cp.exc = "KeyboardInterrupt"
    /\ cp.src_proc = "killed" /\ cp.dest_proc = "killed"


-----------------------------------------------------------------------------
(* Properties of fetch_from_image, checked under SpecFetch *)

FiFinished == fi.pc \in {"returned", "raised"}
DeleteSent == \E k \in 1..Len(fi.started) : fi.started[k] = "delete pod --wait=false"

\* C28: outside dry-run, fetch_from_image has sent the delete of the temporary
\* pod it created whenever it returns or raises, also when the copy out of
\* the pod raised.
C28_TemporaryPodDeleted ==
    (fi.mode # "dry-run" /\ FiFinished /\ fi.created) => DeleteSent


-----------------------------------------------------------------------------
(* Properties of scale_resources_to_zero *)

\* C29: outside dry-run scale_resources_to_zero comes to an end: while pods of
\* a scaled selector stay listed it raises TimeoutError once more than 3600
\* seconds have passed since the waiting started.
C29_ScaleTerminates == <>(sz.pc \in {"returned", "raised"})


-----------------------------------------------------------------------------
(* Properties of Task.monitor, checked under SpecMonitor *)

PhaseStatus(p) ==
    LET k == CHOOSE k \in 1..Len(tk.tracker) : tk.tracker[k].phase = p IN tk.tracker[k].status

\* C30: a monitored phase entered while another phase of the task holds a
\* failure status does not run its body and is recorded as 'aborted',
\* whatever the statuses of the other phases.
C30_LaterPhasesAborted ==
    (tk.failedBefore /\ tk.pc \in {"between", "exited"}) =>
        ~tk.ranBody /\ PhaseStatus(tk.phase) = "aborted"

=============================================================================
